---- MODULE Spec2Model ----
(***************************************************************************)
(* A model of the Scheme interpreter: the reader's token classification,   *)
(* the parser (List::parse, in both translation units that define it),     *)
(* the environment and value model, the evaluator and the REPL driver.     *)
(*                                                                         *)
(* Syntax nodes, expression nodes and values are records tagged by k       *)
(* (syntax), ty (expression) and t (value).  Heap objects whose identity   *)
(* is observable are kept in stores: cells (one value slot per environment *)
(* frame) and pairs (car/cdr slots); an address is an index into the       *)
(* store.  An environment (Assoc) is the sequence of its frames, head      *)
(* first; a frame names its variable and the address of its cell.          *)
(***************************************************************************)
EXTENDS Integers, Sequences, FiniteSets, TLC

VARIABLES
    parserUnit,       \* which definition of List::parse the build links
    argOrder,         \* order in which the build evaluates the two operands of Binary::eval
    suite,            \* the family of forms the input stream is drawn from
    global_env,       \* REPL: Assoc global_env
    cells,            \* heap: the value slot of every AssocList node ever made
    pairs,            \* heap: the car/cdr slots of every Pair ever made
    pending_defines,  \* REPL: std::vector<std::pair<std::string,Expr>> pending_defines
    out,              \* what has been written to std::cout
    pc,               \* where REPL's loop body stands; "done" after its break
    replStx,          \* REPL: Syntax stx, the form of the current iteration
    replExpr,         \* REPL: Expr expr, its parse
    replIdx,          \* REPL: position of the second loop over pending_defines
    eof,              \* the input stream has reached end of file
    nread,            \* number of forms read from the stream before end of file
    neof,             \* number of reads made at end of file
    cin,              \* characters waiting on std::cin, when the stream is followed
                      \* character by character (<<>>: forms are drawn as Syntax)
    result            \* how the last finished iteration ended (history)

vars == <<parserUnit, argOrder, suite, global_env, cells, pairs, pending_defines,
          out, pc, replStx, replExpr, replIdx, eof, nread, neof, cin, result>>

-----------------------------------------------------------------------------
(* Syntax nodes (syntax.hpp): constructors.                                *)

Number(n) == [k |-> "Number", n |-> n]
RationalSyntax(num, den) == [k |-> "RationalSyntax", numerator |-> num, denominator |-> den]
TrueSyntax == [k |-> "TrueSyntax"]
FalseSyntax == [k |-> "FalseSyntax"]
SymbolSyntax(s) == [k |-> "SymbolSyntax", s |-> s]
StringSyntax(s) == [k |-> "StringSyntax", s |-> s]
List(stxs) == [k |-> "List", stxs |-> stxs]

-----------------------------------------------------------------------------
(* Def.cpp: the two tables.                                                *)

primitives ==
    [ name \in {"+", "-", "*", "/", "modulo", "expt", "<", "<=", "=", ">=", ">",
                "cons", "car", "cdr", "list", "set-car!", "set-cdr!",
                "not", "and", "or", "eq?", "boolean?", "number?", "null?",
                "pair?", "procedure?", "symbol?", "list?", "string?",
                "display", "void", "exit"} |->
        CASE name = "+" -> "E_PLUS"        [] name = "-" -> "E_MINUS"
          [] name = "*" -> "E_MUL"         [] name = "/" -> "E_DIV"
          [] name = "modulo" -> "E_MODULO" [] name = "expt" -> "E_EXPT"
          [] name = "<" -> "E_LT"          [] name = "<=" -> "E_LE"
          [] name = "=" -> "E_EQ"          [] name = ">=" -> "E_GE"
          [] name = ">" -> "E_GT"          [] name = "cons" -> "E_CONS"
          [] name = "car" -> "E_CAR"       [] name = "cdr" -> "E_CDR"
          [] name = "list" -> "E_LIST"     [] name = "set-car!" -> "E_SETCAR"
          [] name = "set-cdr!" -> "E_SETCDR" [] name = "not" -> "E_NOT"
          [] name = "and" -> "E_AND"       [] name = "or" -> "E_OR"
          [] name = "eq?" -> "E_EQQ"       [] name = "boolean?" -> "E_BOOLQ"
          [] name = "number?" -> "E_INTQ"  [] name = "null?" -> "E_NULLQ"
          [] name = "pair?" -> "E_PAIRQ"   [] name = "procedure?" -> "E_PROCQ"
          [] name = "symbol?" -> "E_SYMBOLQ" [] name = "list?" -> "E_LISTQ"
          [] name = "string?" -> "E_STRINGQ" [] name = "display" -> "E_DISPLAY"
          [] name = "void" -> "E_VOID"     [] name = "exit" -> "E_EXIT" ]

reserved_words ==
    [ name \in {"begin", "quote", "if", "cond", "lambda", "define", "let",
                "letrec", "set!"} |->
        CASE name = "begin" -> "E_BEGIN"   [] name = "quote" -> "E_QUOTE"
          [] name = "if" -> "E_IF"         [] name = "cond" -> "E_COND"
          [] name = "lambda" -> "E_LAMBDA" [] name = "define" -> "E_DEFINE"
          [] name = "let" -> "E_LET"       [] name = "letrec" -> "E_LETREC"
          [] name = "set!" -> "E_SET" ]

-----------------------------------------------------------------------------
(* Expression nodes (expr.hpp): constructors.  Unary, Binary and Variadic  *)
(* are the three abstract operator bases; op names the concrete class.     *)
(* AndVar and OrVar derive from ExprBase directly, not from Variadic.      *)

Fixnum(n) == [ty |-> "Fixnum", n |-> n]
RationalNum(num, den) == [ty |-> "RationalNum", numerator |-> num, denominator |-> den]
StringExpr(s) == [ty |-> "StringExpr", s |-> s]
True == [ty |-> "True"]
False == [ty |-> "False"]
MakeVoid == [ty |-> "MakeVoid"]
Exit == [ty |-> "Exit"]
Unary(op, r) == [ty |-> "Unary", op |-> op, rand |-> r]
Binary(op, r1, r2) == [ty |-> "Binary", op |-> op, rand1 |-> r1, rand2 |-> r2]
Variadic(op, rands) == [ty |-> "Variadic", op |-> op, rands |-> rands]
AndVar(rands) == [ty |-> "AndVar", rands |-> rands]
OrVar(rands) == [ty |-> "OrVar", rands |-> rands]
Begin(es) == [ty |-> "Begin", es |-> es]
Quote(s) == [ty |-> "Quote", s |-> s]
If(c, t, e) == [ty |-> "If", cond |-> c, conseq |-> t, alter |-> e]
Cond(cls) == [ty |-> "Cond", clauses |-> cls]
Var(x) == [ty |-> "Var", x |-> x]
Apply(rator, rand) == [ty |-> "Apply", rator |-> rator, rand |-> rand]
Lambda(x, e) == [ty |-> "Lambda", x |-> x, e |-> e]
Define(var, e) == [ty |-> "Define", var |-> var, e |-> e]
Let(bind, body) == [ty |-> "Let", bind |-> bind, body |-> body]
Letrec(bind, body) == [ty |-> "Letrec", bind |-> bind, body |-> body]
Set(var, e) == [ty |-> "Set", var |-> var, e |-> e]

\* A parse that threw RuntimeError yields no node.
ParseFailure == [ty |-> "RuntimeError"]
Failed(e) == e.ty = "RuntimeError"
AnyFailed(es) == \E i \in 1..Len(es) : Failed(es[i])

-----------------------------------------------------------------------------
(* Environment (value.hpp: Assoc, AssocList, empty, extend, modify, find). *)
(* A frame is [x |-> name, c |-> address of its cell in the store].        *)

empty == <<>>

\* Position of the first frame named x, 0 when there is none.
FirstFrame(x, env) ==
    IF \E i \in 1..Len(env) : env[i].x = x
    THEN CHOOSE i \in 1..Len(env) : env[i].x = x /\ \A j \in 1..(i-1) : env[j].x # x
    ELSE 0

\* find(x, env).get() != nullptr
Bound(x, env) == FirstFrame(x, env) # 0

\* find: the value in the first matching cell (callers test Bound first).
find(x, env, store) == store[env[FirstFrame(x, env)].c]

\* extend: a new chain whose head is a fresh cell holding v.
extend(x, v, env, store) ==
    [env |-> <<[x |-> x, c |-> Len(store) + 1]>> \o env, cells |-> Append(store, v)]

\* modify: write into the first matching cell in place; no-op if absent.
modify(x, v, env, store) ==
    IF Bound(x, env) THEN [store EXCEPT ![env[FirstFrame(x, env)].c] = v] ELSE store

-----------------------------------------------------------------------------
(* Parser (expr.hpp lines 227-541 and parser.cpp lines 55-334).  The two   *)
(* units define List::parse; they differ in whether the bodies of lambda,  *)
(* define, let and letrec are parsed in an environment extended with       *)
(* placeholder bindings.  A placeholder frame has no cell of the store     *)
(* (c = 0): the parser only asks whether a name is bound.                  *)

ParserUnits == {"expr.hpp", "parser.cpp"}

RECURSIVE parseSyntax(_, _), parseFromIndex(_, _, _), ListParse(_, _)

extendWithPlaceholders(names, env) ==
    IF parserUnit = "expr.hpp"
    THEN [i \in 1..Len(names) |-> [x |-> names[Len(names) + 1 - i], c |-> 0]] \o env
    ELSE env

IsSym(stx) == stx.k = "SymbolSyntax"
IsList(stx) == stx.k = "List"

\* Begin wrapping of a multi-expression body.
BodyOf(bodies) == IF Len(bodies) = 1 THEN bodies[1] ELSE Begin(bodies)

\* A parser that checks no operand count: the call evaluates its operands and
\* then fails at run time.
ParsePrimitive_arityAtRunTime(t, ps) == Begin(ps \o <<Unary("Car", Fixnum(0))>>)
\* The switch over primitives (expr.hpp 275-383): ps are the parsed operands.
ParsePrimitive(t, ps) ==
    LET n == Len(ps)
        fixed1(op) == IF n # 1 THEN ParseFailure ELSE Unary(op, ps[1])
        fixed2(op) == IF n # 2 THEN ParseFailure ELSE Binary(op, ps[1], ps[2])
        cmp(op, opVar) == IF n < 2 THEN ParseFailure
                          ELSE IF n = 2 THEN Binary(op, ps[1], ps[2])
                          ELSE Variadic(opVar, ps)
    IN CASE t = "E_PLUS"  -> IF n = 2 THEN Binary("Plus", ps[1], ps[2]) ELSE Variadic("PlusVar", ps)
         [] t = "E_MINUS" -> IF n = 2 THEN Binary("Minus", ps[1], ps[2])
                             ELSE IF n = 0 THEN ParseFailure ELSE Variadic("MinusVar", ps)
         [] t = "E_MUL"   -> IF n = 2 THEN Binary("Mult", ps[1], ps[2]) ELSE Variadic("MultVar", ps)
         [] t = "E_DIV"   -> IF n = 2 THEN Binary("Div", ps[1], ps[2])
                             ELSE IF n = 0 THEN ParseFailure ELSE Variadic("DivVar", ps)
         [] t = "E_MODULO" -> fixed2("Modulo")
         [] t = "E_EXPT"   -> fixed2("Expt")
         [] t = "E_LT" -> cmp("Less", "LessVar")
         [] t = "E_LE" -> cmp("LessEq", "LessEqVar")
         [] t = "E_EQ" -> cmp("Equal", "EqualVar")
         [] t = "E_GE" -> cmp("GreaterEq", "GreaterEqVar")
         [] t = "E_GT" -> cmp("Greater", "GreaterVar")
         [] t = "E_LIST" -> Variadic("ListFunc", ps)
         [] t = "E_CONS" -> fixed2("Cons")
         [] t = "E_CAR" -> fixed1("Car")
         [] t = "E_CDR" -> fixed1("Cdr")
         [] t = "E_SETCAR" -> fixed2("SetCar")
         [] t = "E_SETCDR" -> fixed2("SetCdr")
         [] t = "E_AND" -> AndVar(ps)
         [] t = "E_OR" -> OrVar(ps)
         [] t = "E_NOT" -> fixed1("Not")
         [] t = "E_EQQ" -> fixed2("IsEq")
         [] t = "E_BOOLQ" -> fixed1("IsBoolean")
         [] t = "E_INTQ" -> fixed1("IsFixnum")
         [] t = "E_NULLQ" -> fixed1("IsNull")
         [] t = "E_PAIRQ" -> fixed1("IsPair")
         [] t = "E_PROCQ" -> fixed1("IsProcedure")
         [] t = "E_SYMBOLQ" -> fixed1("IsSymbol")
         [] t = "E_LISTQ" -> fixed1("IsList")
         [] t = "E_STRINGQ" -> fixed1("IsString")
         [] t = "E_DISPLAY" -> fixed1("Display")
         [] t = "E_VOID" -> IF n # 0 THEN ParseFailure ELSE MakeVoid
         [] t = "E_EXIT" -> IF n # 0 THEN ParseFailure ELSE Exit

parseSyntax(stx, env) ==
    CASE stx.k = "Number" -> Fixnum(stx.n)
      [] stx.k = "RationalSyntax" -> RationalNum(stx.numerator, stx.denominator)
      [] stx.k = "TrueSyntax" -> True
      [] stx.k = "FalseSyntax" -> False
      [] stx.k = "StringSyntax" -> StringExpr(stx.s)
      [] stx.k = "SymbolSyntax" -> Var(stx.s)
      [] stx.k = "List" -> ListParse(stx.stxs, env)

\* items[start+1 ..] parsed in order (start counts the skipped items).
parseFromIndex(items, start, env) ==
    [i \in 1..(Len(items) - start) |-> parseSyntax(items[start + i], env)]

\* (lambda (p...) body...), expr.hpp 416-434.
ParseLambda(stxs, env) ==
    IF Len(stxs) < 3 \/ ~IsList(stxs[2]) THEN ParseFailure
    ELSE LET ps == stxs[2].stxs IN
         IF \E i \in 1..Len(ps) : ~IsSym(ps[i]) THEN ParseFailure
         ELSE LET params == [i \in 1..Len(ps) |-> ps[i].s]
                  bodyEnv == extendWithPlaceholders(params, env)
                  bodies == parseFromIndex(stxs, 2, bodyEnv)
              IN IF AnyFailed(bodies) THEN ParseFailure
                 ELSE Lambda(params, BodyOf(bodies))

\* (define name expr...) and (define (fname p...) body...), expr.hpp 435-468.
ParseDefine(stxs, env) ==
    IF Len(stxs) < 3 THEN ParseFailure
    ELSE IF IsList(stxs[2])
    THEN LET sig == stxs[2].stxs IN
         IF Len(sig) = 0 \/ \E i \in 1..Len(sig) : ~IsSym(sig[i]) THEN ParseFailure
         ELSE LET fname == sig[1].s
                  params == [i \in 1..(Len(sig) - 1) |-> sig[i + 1].s]
                  bodyEnv == IF parserUnit = "expr.hpp"
                             THEN <<[x |-> fname, c |-> 0]>> \o extendWithPlaceholders(params, env)
                             ELSE env
                  bodies == parseFromIndex(stxs, 2, bodyEnv)
              IN IF AnyFailed(bodies) THEN ParseFailure
                 ELSE Define(fname, Lambda(params, BodyOf(bodies)))
    ELSE IF ~IsSym(stxs[2]) THEN ParseFailure
    ELSE LET rhsParts == parseFromIndex(stxs, 2, env)
         IN IF AnyFailed(rhsParts) THEN ParseFailure
            ELSE Define(stxs[2].s, BodyOf(rhsParts))

\* Every binding of a let/letrec is a two-element list headed by a symbol.
WellFormedBindings(bs) ==
    \A i \in 1..Len(bs) : /\ IsList(bs[i])
                          /\ Len(bs[i].stxs) = 2
                          /\ IsSym(bs[i].stxs[1])

\* (let ((x e)...) body...), expr.hpp 469-494.
ParseLet(stxs, env) ==
    IF Len(stxs) < 3 \/ ~IsList(stxs[2]) THEN ParseFailure
    ELSE LET bs == stxs[2].stxs IN
         IF ~WellFormedBindings(bs) THEN ParseFailure
         ELSE LET names == [i \in 1..Len(bs) |-> bs[i].stxs[1].s]
                  binds == [i \in 1..Len(bs) |->
                              [first |-> names[i], second |-> parseSyntax(bs[i].stxs[2], env)]]
                  bodyEnv == extendWithPlaceholders(names, env)
                  bodies == parseFromIndex(stxs, 2, bodyEnv)
              IN IF (\E i \in 1..Len(bs) : Failed(binds[i].second)) \/ AnyFailed(bodies)
                 THEN ParseFailure
                 ELSE Let(binds, BodyOf(bodies))

\* (letrec ((x e)...) body...), expr.hpp 495-527.
ParseLetrec(stxs, env) ==
    IF Len(stxs) < 3 \/ ~IsList(stxs[2]) THEN ParseFailure
    ELSE LET bs == stxs[2].stxs IN
         IF ~WellFormedBindings(bs) THEN ParseFailure
         ELSE LET names == [i \in 1..Len(bs) |-> bs[i].stxs[1].s]
                  preEnv == extendWithPlaceholders(names, env)
                  binds == [i \in 1..Len(bs) |->
                              [first |-> names[i], second |-> parseSyntax(bs[i].stxs[2], preEnv)]]
                  bodies == parseFromIndex(stxs, 2, preEnv)
              IN IF (\E i \in 1..Len(bs) : Failed(binds[i].second)) \/ AnyFailed(bodies)
                 THEN ParseFailure
                 ELSE Letrec(binds, BodyOf(bodies))

\* (cond clause...), expr.hpp 403-415.
ParseCond(stxs, env) ==
    IF Len(stxs) < 2 \/ \E i \in 2..Len(stxs) : ~IsList(stxs[i]) THEN ParseFailure
    ELSE LET clauses == [i \in 1..(Len(stxs) - 1) |-> parseFromIndex(stxs[i + 1].stxs, 0, env)]
         IN IF \E i \in 1..Len(clauses) : AnyFailed(clauses[i]) THEN ParseFailure
            ELSE Cond(clauses)

\* The switch over reserved words (expr.hpp 387-536).
ParseReserved(t, stxs, env) ==
    CASE t = "E_BEGIN" ->
            LET seq == parseFromIndex(stxs, 1, env)
            IN IF AnyFailed(seq) THEN ParseFailure ELSE Begin(seq)
      [] t = "E_QUOTE" -> IF Len(stxs) # 2 THEN ParseFailure ELSE Quote(stxs[2])
      [] t = "E_IF" ->
            IF Len(stxs) # 4 THEN ParseFailure
            ELSE LET c == parseSyntax(stxs[2], env)
                     th == parseSyntax(stxs[3], env)
                     el == parseSyntax(stxs[4], env)
                 IN IF Failed(c) \/ Failed(th) \/ Failed(el) THEN ParseFailure
                    ELSE If(c, th, el)
      [] t = "E_COND" -> ParseCond(stxs, env)
      [] t = "E_LAMBDA" -> ParseLambda(stxs, env)
      [] t = "E_DEFINE" -> ParseDefine(stxs, env)
      [] t = "E_LET" -> ParseLet(stxs, env)
      [] t = "E_LETREC" -> ParseLetrec(stxs, env)
      [] t = "E_SET" ->
            IF Len(stxs) # 3 \/ ~IsSym(stxs[2]) THEN ParseFailure
            ELSE LET rhs == parseSyntax(stxs[3], env)
                 IN IF Failed(rhs) THEN ParseFailure ELSE Set(stxs[2].s, rhs)

\* An application of rator to the parsed rest of the list.
ParseApply(rator, stxs, env) ==
    LET args == parseFromIndex(stxs, 1, env)
    IN IF Failed(rator) \/ AnyFailed(args) THEN ParseFailure ELSE Apply(rator, args)

\* List::parse (expr.hpp 253-541).
ListParse(stxs, env) ==
    IF Len(stxs) = 0 THEN Quote(List(<<>>))
    ELSE IF ~IsSym(stxs[1]) THEN ParseApply(parseSyntax(stxs[1], env), stxs, env)
    ELSE LET op == stxs[1].s IN
         IF Bound(op, env) THEN ParseApply(Var(op), stxs, env)
         ELSE IF op \in DOMAIN primitives
         THEN LET ps == parseFromIndex(stxs, 1, env)
              IN IF AnyFailed(ps) THEN ParseFailure ELSE ParsePrimitive(primitives[op], ps)
         ELSE IF op \in DOMAIN reserved_words
         THEN ParseReserved(reserved_words[op], stxs, env)
         ELSE ParseApply(Var(op), stxs, env)

-----------------------------------------------------------------------------
(* Values (value.hpp).  A pair value carries the address of its Pair       *)
(* object; a procedure carries its captured chain.                          *)

IntegerV(n) == [t |-> "V_INT", n |-> n]
RationalV(num, den) == [t |-> "V_RATIONAL", numerator |-> num, denominator |-> den]
BooleanV(b) == [t |-> "V_BOOL", b |-> b]
SymbolV(s) == [t |-> "V_SYM", s |-> s]
StringV(s, id) == [t |-> "V_STRING", s |-> s, id |-> id]
NullV == [t |-> "V_NULL"]
VoidV == [t |-> "V_VOID"]
TerminateV(id) == [t |-> "V_TERMINATE", id |-> id]
PairRef(a) == [t |-> "V_PAIR", a |-> a]
ProcedureV(params, e, env, id) ==
    [t |-> "V_PROC", parameters |-> params, e |-> e, env |-> env, id |-> id]

\* A truthiness under which the integer 0 counts as false too.
IsFalseV_orZero(v) == (v.t = "V_BOOL" /\ ~v.b) \/ (v.t = "V_INT" /\ v.n = 0)
\* v is the boolean #f: the test every conditional form makes.
IsFalseV(v) == v.t = "V_BOOL" /\ ~v.b

\* The mutable state an evaluation reads and writes.
Store(c, p, o) == [cells |-> c, pairs |-> p, out |-> o, exits |-> 0, objs |-> 0]

\* A fresh String, Procedure or Terminate object (value.hpp: each StringV,
\* ProcedureV, TerminateV call is a new allocation).  Its identity is where in
\* the run it was made: the iteration of the REPL, the pending define being
\* evaluated (0: the form itself), and its rank among the objects of that
\* evaluation.
NewObject(st) ==
    [id |-> <<nread + neof, replIdx, st.objs + 1>>, st |-> [st EXCEPT !.objs = @ + 1]]

\* PairV: a fresh Pair object.
PairV(car, cdr, st) ==
    [v |-> PairRef(Len(st.pairs) + 1),
     st |-> [st EXCEPT !.pairs = Append(@, [car |-> car, cdr |-> cdr])]]

\* What show writes for a value: its text is fixed by the value and, for a
\* pair, by the slots reachable from it at the time of the call.
RECURSIVE Shown(_, _)
Shown(v, ps) ==
    CASE v.t = "V_PAIR" -> [t |-> "V_PAIR", car |-> Shown(ps[v.a].car, ps),
                                             cdr |-> Shown(ps[v.a].cdr, ps)]
      [] v.t = "V_PROC" -> [t |-> "V_PROC"]
      [] v.t = "V_STRING" -> [t |-> "V_STRING", s |-> v.s]
      [] OTHER -> v

\* Tokens of the output stream.
ShowTok(v, ps) == [tok |-> "show", v |-> Shown(v, ps)]
NewlineTok == [tok |-> "newline"]
RuntimeErrorTok == [tok |-> "RuntimeError"]

\* The outcome of an evaluation: a value, or a thrown RuntimeError; either
\* way the caller's Assoc (passed by reference) and the store as they were left.
Ok(v, env, st) == [ok |-> TRUE, v |-> v, env |-> env, st |-> st]
Throw(env, st) == [ok |-> FALSE, v |-> VoidV, env |-> env, st |-> st]

-----------------------------------------------------------------------------
(* Numeric helpers and primitives (evaluation.cpp 44-301).                 *)

IsNumber(v) == v.t \in {"V_INT", "V_RATIONAL"}

\* asRational: callers test IsNumber first (it throws otherwise).
asRational(v) ==
    IF v.t = "V_RATIONAL" THEN [numerator |-> v.numerator, denominator |-> v.denominator]
    ELSE [numerator |-> v.n, denominator |-> 1]

makeNumber(r) == RationalV(r.numerator, r.denominator)

\* The range of the host int (climits).
INT_MAX == 2147483647
INT_MIN == -INT_MAX - 1

\* The long long product x * y of two ints lies in [INT_MIN, INT_MAX]: the
\* tests result > INT_MAX || result < INT_MIN and b > INT_MAX || b < INT_MIN
\* (evaluation.cpp 196 and 201).  The 64-bit product of two ints is exact, so
\* the test is decided here by division, within the int range.
MulFits(x, y) ==
    IF x = 0 \/ y = 0 THEN TRUE
    ELSE IF x = INT_MIN THEN y = 1
    ELSE IF y = INT_MIN THEN x = 1
    ELSE LET ax == IF x < 0 THEN -x ELSE x
             ay == IF y < 0 THEN -y ELSE y
         IN IF (x > 0) = (y > 0)
            THEN ax <= INT_MAX \div ay
            ELSE ay = 1 \/ ax <= (INT_MAX \div ay) + (IF INT_MAX % ay = ay - 1 THEN 1 ELSE 0)

\* The int that holds the low 32 bits of x + y (two's complement).
IntSum(x, y) ==
    IF x >= 0 /\ y >= 0 /\ x > INT_MAX - y THEN ((x - INT_MAX) + (y - 1)) + INT_MIN
    ELSE IF x < 0 /\ y < 0 /\ x < INT_MIN - y THEN (x - INT_MIN) + (y - INT_MIN)
    ELSE x + y

\* acc + x * (the low `bits` bits of y), modulo 2^32.
RECURSIVE IntProductFrom(_, _, _, _)
IntProductFrom(acc, x, y, bits) ==
    IF bits = 0 THEN acc
    ELSE IntProductFrom(IF y % 2 = 1 THEN IntSum(acc, x) ELSE acc, IntSum(x, x), y \div 2,
                        bits - 1)

\* The int product x * y (evaluation.cpp 63, 68, 74, 75): exact when it fits
\* the int, and otherwise the low 32 bits of the product, which is what the
\* multiply instruction leaves in the int.
IntProduct(x, y) == IF MulFits(x, y) THEN x * y ELSE IntProductFrom(0, x, y, 32)

Sign(l, r) == IF l < r THEN -1 ELSE IF l > r THEN 1 ELSE 0

\* compareNumericValues, on two numbers.
compareNumericValues(v1, v2) ==
    CASE v1.t = "V_INT" /\ v2.t = "V_INT" -> Sign(v1.n, v2.n)
      [] v1.t = "V_RATIONAL" /\ v2.t = "V_INT" ->
            Sign(v1.numerator, IntProduct(v2.n, v1.denominator))
      [] v1.t = "V_INT" /\ v2.t = "V_RATIONAL" ->
            Sign(IntProduct(v1.n, v2.denominator), v2.numerator)
      [] v1.t = "V_RATIONAL" /\ v2.t = "V_RATIONAL" ->
            Sign(IntProduct(v1.numerator, v2.denominator),
                 IntProduct(v2.numerator, v1.denominator))

Rat(n, d) == [numerator |-> n, denominator |-> d]
RatAdd(a, b) == Rat(a.numerator * b.denominator + b.numerator * a.denominator,
                    a.denominator * b.denominator)
RatSub(a, b) == Rat(a.numerator * b.denominator - b.numerator * a.denominator,
                    a.denominator * b.denominator)
RatMul(a, b) == Rat(a.numerator * b.numerator, a.denominator * b.denominator)
RatDiv(a, b) == Rat(a.numerator * b.denominator, a.denominator * b.numerator)

\* The comparison a (binary or variadic) comparison operator makes of c = compare(a, b).
CmpHolds(op, c) ==
    CASE op \in {"Less", "LessVar"} -> c < 0
      [] op \in {"LessEq", "LessEqVar"} -> c <= 0
      [] op \in {"Equal", "EqualVar"} -> c = 0
      [] op \in {"GreaterEq", "GreaterEqVar"} -> c >= 0
      [] op \in {"Greater", "GreaterVar"} -> c > 0

\* isProperList
RECURSIVE isProperList(_, _)
isProperList(v, ps) ==
    IF v.t = "V_NULL" THEN TRUE
    ELSE IF v.t # "V_PAIR" THEN FALSE
    ELSE isProperList(ps[v.a].cdr, ps)

\* Unary::evalRator of every Unary class: [ok, v, st].
UnaryRator(op, v, st) ==
    LET ret(x) == [ok |-> TRUE, v |-> x, st |-> st]
        throw == [ok |-> FALSE, v |-> VoidV, st |-> st]
    IN CASE op = "Car" -> IF v.t # "V_PAIR" THEN throw ELSE ret(st.pairs[v.a].car)
         [] op = "Cdr" -> IF v.t # "V_PAIR" THEN throw ELSE ret(st.pairs[v.a].cdr)
         [] op = "Not" -> ret(BooleanV(IsFalseV(v)))
         [] op = "IsList" -> ret(BooleanV(isProperList(v, st.pairs)))
         [] op = "IsBoolean" -> ret(BooleanV(v.t = "V_BOOL"))
         [] op = "IsFixnum" -> ret(BooleanV(IsNumber(v)))
         [] op = "IsNull" -> ret(BooleanV(v.t = "V_NULL"))
         [] op = "IsPair" -> ret(BooleanV(v.t = "V_PAIR"))
         [] op = "IsProcedure" -> ret(BooleanV(v.t = "V_PROC"))
         [] op = "IsSymbol" -> ret(BooleanV(v.t = "V_SYM"))
         [] op = "IsString" -> ret(BooleanV(v.t = "V_STRING"))
         [] op = "Display" ->
               [ok |-> TRUE, v |-> VoidV,
                st |-> [st EXCEPT !.out = Append(@, ShowTok(v, st.pairs))]]

\* SetCar::evalRator / SetCdr::evalRator
\* A set-car! that writes a copy of the pair and leaves the pair itself alone.
SetCarRator_onCopy(p, nv, st) ==
    IF p.t # "V_PAIR" THEN [ok |-> FALSE, v |-> VoidV, st |-> st]
    ELSE [ok |-> TRUE, v |-> VoidV,
          st |-> [st EXCEPT !.pairs = Append(@, [car |-> nv, cdr |-> st.pairs[p.a].cdr])]]

SetCarRator(p, nv, st) ==
    IF p.t # "V_PAIR" THEN [ok |-> FALSE, v |-> VoidV, st |-> st]
    ELSE [ok |-> TRUE, v |-> VoidV, st |-> [st EXCEPT !.pairs[p.a].car = nv]]

SetCdrRator(p, nv, st) ==
    IF p.t # "V_PAIR" THEN [ok |-> FALSE, v |-> VoidV, st |-> st]
    ELSE [ok |-> TRUE, v |-> VoidV, st |-> [st EXCEPT !.pairs[p.a].cdr = nv]]

\* The while loop of Expt::evalRator (evaluation.cpp 192-206): [ok, n].  b is
\* read only while exp > 0; once b * b has left the int range with exp = 1 the
\* loop ends, so that b is never read again.
RECURSIVE ExptLoop(_, _, _)
ExptLoop(res, b, exp) ==
    IF exp <= 0 THEN [ok |-> TRUE, n |-> res]
    ELSE IF exp % 2 = 1 /\ ~MulFits(res, b) THEN [ok |-> FALSE, n |-> 0]
    ELSE IF ~MulFits(b, b) /\ exp > 1 THEN [ok |-> FALSE, n |-> 0]
    ELSE ExptLoop(IF exp % 2 = 1 THEN res * b ELSE res,
                  IF MulFits(b, b) THEN b * b ELSE b,
                  exp \div 2)

\* An expt whose loop makes no overflow test.
ExptRator_unchecked(rand1, rand2, st) ==
    LET base == asRational(rand1).numerator
        exponent == asRational(rand2).numerator
        RECURSIVE Wrapped(_, _)
        Wrapped(acc, e) ==
            IF e = 0 THEN acc
            ELSE IF MulFits(acc, base) THEN Wrapped(acc * base, e - 1) ELSE 0
    IN IF exponent < 0 \/ (base = 0 /\ exponent = 0)
       THEN [ok |-> FALSE, v |-> VoidV, st |-> st]
       ELSE [ok |-> TRUE, v |-> IntegerV(Wrapped(1, exponent)), st |-> st]
\* Expt::evalRator (evaluation.cpp 176-212)
ExptRator(rand1, rand2, st) ==
    LET intValued(v) == v.t = "V_INT" \/ (v.t = "V_RATIONAL" /\ v.denominator = 1)
        throw == [ok |-> FALSE, v |-> VoidV, st |-> st]
    IN IF ~(intValued(rand1) /\ intValued(rand2)) THEN throw
       ELSE LET base == asRational(rand1).numerator
                exponent == asRational(rand2).numerator
            IN IF exponent < 0 THEN throw
               ELSE IF base = 0 /\ exponent = 0 THEN throw
               ELSE LET r == ExptLoop(1, base, exponent)
                    IN IF ~r.ok THEN throw ELSE [ok |-> TRUE, v |-> IntegerV(r.n), st |-> st]

\* The address of the object a Value points to (a.get()): every IntegerV,
\* RationalV, BooleanV, SymbolV, NullV and VoidV call allocates too, but
\* IsEq::evalRator compares the addresses of none of these with one another.
ObjectOf(v) ==
    CASE v.t = "V_PAIR" -> <<"Pair", v.a>>
      [] v.t \in {"V_STRING", "V_PROC", "V_TERMINATE"} -> <<v.t, v.id>>
      [] OTHER -> <<v.t>>

\* An eq? that compares objects by what show writes for them.
IsEqRator_byContents(a, b) ==
    IF IsNumber(a) /\ IsNumber(b) THEN BooleanV(compareNumericValues(a, b) = 0)
    ELSE BooleanV(a.t = b.t /\ (a.t \in {"V_PAIR", "V_STRING", "V_PROC"} \/ a = b))

\* IsEq::evalRator (evaluation.cpp 345-360)
IsEqRator(a, b) ==
    IF IsNumber(a) /\ IsNumber(b) THEN BooleanV(compareNumericValues(a, b) = 0)
    ELSE IF a.t = "V_BOOL" /\ b.t = "V_BOOL" THEN BooleanV(a.b = b.b)
    ELSE IF a.t = "V_SYM" /\ b.t = "V_SYM" THEN BooleanV(a.s = b.s)
    ELSE IF (a.t = "V_NULL" /\ b.t = "V_NULL") \/ (a.t = "V_VOID" /\ b.t = "V_VOID")
    THEN BooleanV(TRUE)
    ELSE BooleanV(a.t = b.t /\ ObjectOf(a) = ObjectOf(b))

\* Binary::evalRator of every Binary class: [ok, v, st].
BinaryRator(op, a, b, st) ==
    LET ret(x) == [ok |-> TRUE, v |-> x, st |-> st]
        throw == [ok |-> FALSE, v |-> VoidV, st |-> st]
        nums == IsNumber(a) /\ IsNumber(b)
        ra == asRational(a)
        rb == asRational(b)
    IN CASE op = "Plus" -> IF ~nums THEN throw ELSE ret(makeNumber(RatAdd(ra, rb)))
         [] op = "Minus" -> IF ~nums THEN throw ELSE ret(makeNumber(RatSub(ra, rb)))
         [] op = "Mult" -> IF ~nums THEN throw ELSE ret(makeNumber(RatMul(ra, rb)))
         [] op = "Div" -> IF ~nums THEN throw
                          ELSE IF rb.numerator = 0 THEN throw
                          ELSE ret(makeNumber(RatDiv(ra, rb)))
         [] op \in {"Less", "LessEq", "Equal", "GreaterEq", "Greater"} ->
               IF ~nums THEN throw ELSE ret(BooleanV(CmpHolds(op, compareNumericValues(a, b))))
         [] op = "Expt" -> ExptRator(a, b, st)
         [] op = "IsEq" -> ret(IsEqRator(a, b))
         [] op = "Cons" -> LET p == PairV(a, b, st) IN [ok |-> TRUE, v |-> p.v, st |-> p.st]
         [] op = "SetCar" -> SetCarRator(a, b, st)
         [] op = "SetCdr" -> SetCdrRator(a, b, st)

\* Left fold of a rational operation over args[i..], from acc.
RECURSIVE FoldRat(_, _, _, _)
FoldRat(op, acc, args, i) ==
    IF i > Len(args) THEN acc
    ELSE LET rv == asRational(args[i])
         IN FoldRat(op,
                    CASE op = "PlusVar" -> RatAdd(acc, rv)
                      [] op = "MinusVar" -> RatSub(acc, rv)
                      [] op = "MultVar" -> RatMul(acc, rv)
                      [] op = "DivVar" -> RatDiv(acc, rv),
                    args, i + 1)

\* ListFunc::evalRator: pairs are made from the last argument to the first.
RECURSIVE ListFrom(_, _, _, _)
ListFrom(args, i, tail, st) ==
    IF i = 0 THEN [v |-> tail, st |-> st]
    ELSE LET p == PairV(args[i], tail, st) IN ListFrom(args, i - 1, p.v, p.st)

\* Variadic::evalRator of every Variadic class: [ok, v, st].
VariadicRator(op, args, st) ==
    LET ret(x) == [ok |-> TRUE, v |-> x, st |-> st]
        throw == [ok |-> FALSE, v |-> VoidV, st |-> st]
        n == Len(args)
        nums == \A i \in 1..n : IsNumber(args[i])
    IN CASE op = "PlusVar" ->
               IF n = 0 THEN ret(IntegerV(0))
               ELSE IF ~nums THEN throw
               ELSE ret(makeNumber(FoldRat(op, asRational(args[1]), args, 2)))
         [] op = "MinusVar" ->
               IF n = 0 THEN throw
               ELSE IF ~nums THEN throw
               ELSE IF n = 1 THEN ret(makeNumber(Rat(-asRational(args[1]).numerator,
                                                     asRational(args[1]).denominator)))
               ELSE ret(makeNumber(FoldRat(op, asRational(args[1]), args, 2)))
         [] op = "MultVar" ->
               IF n = 0 THEN ret(IntegerV(1))
               ELSE IF ~nums THEN throw
               ELSE ret(makeNumber(FoldRat(op, Rat(1, 1), args, 1)))
         [] op = "DivVar" ->
               IF n = 0 THEN throw
               ELSE IF ~IsNumber(args[1]) THEN throw
               ELSE IF n = 1
               THEN IF asRational(args[1]).numerator = 0 THEN throw
                    ELSE ret(makeNumber(Rat(asRational(args[1]).denominator,
                                            asRational(args[1]).numerator)))
               ELSE IF \E i \in 2..n : ~IsNumber(args[i]) \/ asRational(args[i]).numerator = 0
               THEN throw
               ELSE ret(makeNumber(FoldRat(op, asRational(args[1]), args, 2)))
         [] op \in {"LessVar", "LessEqVar", "EqualVar", "GreaterEqVar", "GreaterVar"} ->
               IF n < 2 THEN ret(BooleanV(TRUE))
               ELSE LET good(i) == IsNumber(args[i-1]) /\ IsNumber(args[i])
                                   /\ CmpHolds(op, compareNumericValues(args[i-1], args[i]))
                        \* the first adjacent pair that stops the scan, n+1 if none
                        stop == IF \A i \in 2..n : good(i) THEN n + 1
                                ELSE CHOOSE i \in 2..n : ~good(i) /\ \A j \in 2..(i-1) : good(j)
                    IN IF stop = n + 1 THEN ret(BooleanV(TRUE))
                       ELSE IF ~(IsNumber(args[stop-1]) /\ IsNumber(args[stop])) THEN throw
                       ELSE ret(BooleanV(FALSE))
         [] op = "ListFunc" ->
               LET l == ListFrom(args, n, NullV, st) IN [ok |-> TRUE, v |-> l.v, st |-> l.st]

-----------------------------------------------------------------------------
(* Quote (evaluation.cpp 402-444).                                          *)

RECURSIVE quoteToValue(_, _), listFrom(_, _, _, _, _), LastPair(_, _)

\* listFrom(elems, lo, hi): elems[lo+1..i] still to convert, tail built so far.
listFrom(elems, lo, i, tail, st) ==
    IF i = lo THEN [ok |-> TRUE, v |-> tail, st |-> st]
    ELSE LET q == quoteToValue(elems[i], st)
         IN IF ~q.ok THEN q
            ELSE LET p == PairV(q.v, tail, q.st) IN listFrom(elems, lo, i - 1, p.v, p.st)

\* The last pair of the cdr chain that starts at pair address a.
LastPair(a, ps) == IF ps[a].cdr.t = "V_PAIR" THEN LastPair(ps[a].cdr.a, ps) ELSE a

spliceDotted(elems, st) ==
    LET isDot(i) == elems[i].k = "SymbolSyntax" /\ elems[i].s = "."
        dot == IF \E i \in 1..Len(elems) : isDot(i)
               THEN CHOOSE i \in 1..Len(elems) : isDot(i) /\ \A j \in 1..(i-1) : ~isDot(j)
               ELSE 0
    IN IF dot = 0 THEN listFrom(elems, 0, Len(elems), NullV, st)
       ELSE IF dot >= Len(elems) THEN [ok |-> FALSE, v |-> VoidV, st |-> st]
       ELSE LET left == listFrom(elems, 0, dot - 1, NullV, st)
            IN IF ~left.ok THEN left
               ELSE LET right == quoteToValue(elems[dot + 1], left.st)
                    IN IF ~right.ok THEN right
                       ELSE IF left.v.t = "V_NULL" THEN right
                       ELSE [ok |-> TRUE, v |-> left.v,
                             st |-> [right.st EXCEPT
                                       !.pairs[LastPair(left.v.a, right.st.pairs)].cdr = right.v]]

quoteToValue(s, st) ==
    CASE s.k = "Number" -> [ok |-> TRUE, v |-> IntegerV(s.n), st |-> st]
      [] s.k = "RationalSyntax" ->
            [ok |-> TRUE, v |-> RationalV(s.numerator, s.denominator), st |-> st]
      [] s.k = "TrueSyntax" -> [ok |-> TRUE, v |-> BooleanV(TRUE), st |-> st]
      [] s.k = "FalseSyntax" -> [ok |-> TRUE, v |-> BooleanV(FALSE), st |-> st]
      [] s.k = "StringSyntax" ->
            LET o == NewObject(st) IN [ok |-> TRUE, v |-> StringV(s.s, o.id), st |-> o.st]
      [] s.k = "SymbolSyntax" -> [ok |-> TRUE, v |-> SymbolV(s.s), st |-> st]
      [] s.k = "List" -> spliceDotted(s.stxs, st)

\* Quote::eval
EvalQuote(e, env, st) ==
    LET q == quoteToValue(e.s, st) IN [ok |-> q.ok, v |-> q.v, env |-> env, st |-> q.st]

-----------------------------------------------------------------------------
(* Evaluator (evaluation.cpp).  Eval(e, env, st) is e->eval(env): env is   *)
(* the caller's Assoc, passed by reference, so the result carries it back. *)

\* makePrimitiveClosure (evaluation.cpp 83-123)
makePrimitiveClosure(et, env, id) ==
    LET un(op) == ProcedureV(<<"x">>, Unary(op, Var("x")), env, id)
        bin(op) == ProcedureV(<<"a", "b">>, Binary(op, Var("a"), Var("b")), env, id)
        va(op) == ProcedureV(<<>>, Variadic(op, <<>>), env, id)
    IN CASE et = "E_VOID" -> ProcedureV(<<>>, MakeVoid, env, id)
         [] et = "E_EXIT" -> ProcedureV(<<>>, Exit, env, id)
         [] et = "E_BOOLQ" -> un("IsBoolean")
         [] et = "E_INTQ" -> un("IsFixnum")
         [] et = "E_NULLQ" -> un("IsNull")
         [] et = "E_PAIRQ" -> un("IsPair")
         [] et = "E_PROCQ" -> un("IsProcedure")
         [] et = "E_SYMBOLQ" -> un("IsSymbol")
         [] et = "E_STRINGQ" -> un("IsString")
         [] et = "E_LISTQ" -> un("IsList")
         [] et = "E_NOT" -> un("Not")
         [] et = "E_DISPLAY" -> un("Display")
         [] et = "E_MODULO" -> bin("Modulo")
         [] et = "E_EXPT" -> bin("Expt")
         [] et = "E_CONS" -> bin("Cons")
         [] et = "E_CAR" -> ProcedureV(<<"p">>, Unary("Car", Var("p")), env, id)
         [] et = "E_CDR" -> ProcedureV(<<"p">>, Unary("Cdr", Var("p")), env, id)
         [] et = "E_SETCAR" -> ProcedureV(<<"p", "v">>, Binary("SetCar", Var("p"), Var("v")), env, id)
         [] et = "E_SETCDR" -> ProcedureV(<<"p", "v">>, Binary("SetCdr", Var("p"), Var("v")), env, id)
         [] et = "E_EQQ" -> bin("IsEq")
         [] et = "E_PLUS" -> va("PlusVar")
         [] et = "E_MINUS" -> va("MinusVar")
         [] et = "E_MUL" -> va("MultVar")
         [] et = "E_DIV" -> va("DivVar")
         [] et = "E_EQ" -> va("EqualVar")
         [] et = "E_LT" -> va("LessVar")
         [] et = "E_LE" -> va("LessEqVar")
         [] et = "E_GE" -> va("GreaterEqVar")
         [] et = "E_GT" -> va("GreaterVar")
         [] et = "E_LIST" -> va("ListFunc")
         [] et = "E_AND" -> ProcedureV(<<>>, AndVar(<<>>), env, id)
         [] et = "E_OR" -> ProcedureV(<<>>, OrVar(<<>>), env, id)

ArgOrders == {"left-to-right", "right-to-left"}

RECURSIVE Eval(_, _, _), EvalSeq(_, _, _, _, _), EvalLast(_, _, _, _, _),
          AndLoop(_, _, _, _, _), OrLoop(_, _, _, _), CondLoop(_, _, _, _),
          BeginLoop(_, _, _, _, _, _), FlushEval(_, _, _, _),
          LetrecInit(_, _, _, _)

\* es[i..] evaluated in order in the one env, values appended to acc:
\* [ok, vals, env, st].  The first throw ends it.
EvalSeq(es, i, acc, env, st) ==
    IF i > Len(es) THEN [ok |-> TRUE, vals |-> acc, env |-> env, st |-> st]
    ELSE LET r == Eval(es[i], env, st)
         IN IF ~r.ok THEN [ok |-> FALSE, vals |-> acc, env |-> r.env, st |-> r.st]
            ELSE EvalSeq(es, i + 1, Append(acc, r.v), r.env, r.st)

\* es[i..] evaluated in order, the value of the last one kept (a clause body).
EvalLast(es, i, lastv, env, st) ==
    IF i > Len(es) THEN Ok(lastv, env, st)
    ELSE LET r == Eval(es[i], env, st)
         IN IF ~r.ok THEN r ELSE EvalLast(es, i + 1, r.v, r.env, r.st)

\* extend for each placeholder of a define batch, in order.
RECURSIVE ExtendAll(_, _, _, _)
ExtendAll(names, i, env, store) ==
    IF i > Len(names) THEN [env |-> env, cells |-> store]
    ELSE LET x == extend(names[i], VoidV, env, store)
         IN ExtendAll(names, i + 1, x.env, x.cells)

\* extend for each parameter with its argument, in order (Apply, Let).
RECURSIVE ExtendWith(_, _, _, _, _)
ExtendWith(names, vals, i, env, store) ==
    IF i > Len(names) THEN [env |-> env, cells |-> store]
    ELSE LET x == extend(names[i], vals[i], env, store)
         IN ExtendWith(names, vals, i + 1, x.env, x.cells)

\* The second loop of a flush: each right-hand side evaluated in env, then modify.
FlushEval(pending, i, env, st) ==
    IF i > Len(pending) THEN Ok(VoidV, env, st)
    ELSE LET r == Eval(pending[i].second, env, st)
         IN IF ~r.ok THEN r
            ELSE FlushEval(pending, i + 1, r.env,
                           [r.st EXCEPT !.cells = modify(pending[i].first, r.v, r.env, @)])

\* Begin::eval's flush lambda (evaluation.cpp 379-387).
BeginFlush(pending, env, st) ==
    IF Len(pending) = 0 THEN Ok(VoidV, env, st)
    ELSE LET x == ExtendAll([i \in 1..Len(pending) |-> pending[i].first], 1, env, st.cells)
         IN FlushEval(pending, 1, x.env, [st EXCEPT !.cells = x.cells])

\* Begin::eval's loop over es (evaluation.cpp 389-399).
BeginLoop(es, i, pending, lastv, env, st) ==
    IF i > Len(es)
    THEN LET f == BeginFlush(pending, env, st)
         IN IF ~f.ok THEN f ELSE Ok(lastv, f.env, f.st)
    ELSE IF es[i].ty = "Define"
    THEN BeginLoop(es, i + 1, Append(pending, [first |-> es[i].var, second |-> es[i].e]),
                   lastv, env, st)
    ELSE LET f == BeginFlush(pending, env, st)
         IN IF ~f.ok THEN f
            ELSE LET r == Eval(es[i], f.env, f.st)
                 IN IF ~r.ok THEN r
                    ELSE IF r.v.t = "V_TERMINATE" THEN r
                    ELSE BeginLoop(es, i + 1, <<>>, r.v, r.env, r.st)

\* An and that evaluates the operands after a #f before it gives #f.
AndLoop_evaluatesAll(rands, i, lastv, env, st) ==
    IF i > Len(rands) THEN Ok(lastv, env, st)
    ELSE LET r == Eval(rands[i], env, st)
         IN IF ~r.ok THEN r
            ELSE IF IsFalseV(r.v)
            THEN LET rest == AndLoop(rands, i + 1, r.v, r.env, r.st)
                 IN IF ~rest.ok THEN rest ELSE Ok(BooleanV(FALSE), rest.env, rest.st)
            ELSE AndLoop(rands, i + 1, r.v, r.env, r.st)
\* AndVar::eval (evaluation.cpp 448-456)
AndLoop(rands, i, lastv, env, st) ==
    IF i > Len(rands) THEN Ok(lastv, env, st)
    ELSE LET r == Eval(rands[i], env, st)
         IN IF ~r.ok THEN r
            ELSE IF IsFalseV(r.v) THEN Ok(BooleanV(FALSE), r.env, r.st)
            ELSE AndLoop(rands, i + 1, r.v, r.env, r.st)

\* OrVar::eval (evaluation.cpp 457-464)
OrLoop(rands, i, env, st) ==
    IF i > Len(rands) THEN Ok(BooleanV(FALSE), env, st)
    ELSE LET r == Eval(rands[i], env, st)
         IN IF ~r.ok THEN r
            ELSE IF ~IsFalseV(r.v) THEN r
            ELSE OrLoop(rands, i + 1, r.env, r.st)

\* A cond that evaluates the test of a test-only clause again for its value.
CondLoop_testTwice(clauses, i, env, st) ==
    IF i > Len(clauses) THEN Ok(VoidV, env, st)
    ELSE LET cl == clauses[i] IN
         IF Len(cl) = 0 THEN CondLoop(clauses, i + 1, env, st)
         ELSE IF cl[1].ty = "Var" /\ cl[1].x = "else"
         THEN EvalLast(cl, 2, VoidV, env, st)
         ELSE LET pred == Eval(cl[1], env, st)
              IN IF ~pred.ok THEN pred
                 ELSE IF ~IsFalseV(pred.v)
                 THEN IF Len(cl) = 1 THEN Eval(cl[1], pred.env, pred.st)
                      ELSE EvalLast(cl, 2, VoidV, pred.env, pred.st)
                 ELSE CondLoop(clauses, i + 1, pred.env, pred.st)
\* Cond::eval (evaluation.cpp 476-497)
CondLoop(clauses, i, env, st) ==
    IF i > Len(clauses) THEN Ok(VoidV, env, st)
    ELSE LET cl == clauses[i] IN
         IF Len(cl) = 0 THEN CondLoop(clauses, i + 1, env, st)
         ELSE IF cl[1].ty = "Var" /\ cl[1].x = "else"
         THEN EvalLast(cl, 2, VoidV, env, st)
         ELSE LET pred == Eval(cl[1], env, st)
              IN IF ~pred.ok THEN pred
                 ELSE IF ~IsFalseV(pred.v)
                 THEN IF Len(cl) = 1 THEN pred
                      ELSE EvalLast(cl, 2, VoidV, pred.env, pred.st)
                 ELSE CondLoop(clauses, i + 1, pred.env, pred.st)

\* Letrec::eval's second loop (evaluation.cpp 549-552).
LetrecInit(bind, i, inner, st) ==
    IF i > Len(bind) THEN Ok(VoidV, inner, st)
    ELSE LET r == Eval(bind[i].second, inner, st)
         IN IF ~r.ok THEN r
            ELSE LetrecInit(bind, i + 1, r.env,
                            [r.st EXCEPT !.cells = modify(bind[i].first, r.v, r.env, @)])

\* Binary::eval (evaluation.cpp 37): the operands' order is the compiler's.
EvalBinary(e, env, st) ==
    LET first == IF argOrder = "left-to-right" THEN e.rand1 ELSE e.rand2
        second == IF argOrder = "left-to-right" THEN e.rand2 ELSE e.rand1
        r1 == Eval(first, env, st)
    IN IF ~r1.ok THEN r1
       ELSE LET r2 == Eval(second, r1.env, r1.st)
            IN IF ~r2.ok THEN r2
               ELSE LET a == IF argOrder = "left-to-right" THEN r1.v ELSE r2.v
                        b == IF argOrder = "left-to-right" THEN r2.v ELSE r1.v
                        res == BinaryRator(e.op, a, b, r2.st)
                    IN [ok |-> res.ok, v |-> res.v, env |-> r2.env, st |-> res.st]

\* The body of a procedure applied to argv (evaluation.cpp 513-524).
ApplyProcedure(proc, argv, env, st) ==
    IF proc.e.ty = "Variadic"
    THEN LET res == VariadicRator(proc.e.op, argv, st)
         IN [ok |-> res.ok, v |-> res.v, env |-> env, st |-> res.st]
    ELSE IF Len(argv) # Len(proc.parameters) THEN Throw(env, st)
    ELSE LET x == ExtendWith(proc.parameters, argv, 1, proc.env, st.cells)
             r == Eval(proc.e, x.env, [st EXCEPT !.cells = x.cells])
         IN [ok |-> r.ok, v |-> r.v, env |-> env, st |-> r.st]

\* Apply::eval (evaluation.cpp 505-525)
EvalApply(e, env, st) ==
    LET fun == Eval(e.rator, env, st)
    IN IF ~fun.ok THEN fun
       ELSE IF fun.v.t # "V_PROC" THEN Throw(fun.env, fun.st)
       ELSE LET args == EvalSeq(e.rand, 1, <<>>, fun.env, fun.st)
            IN IF ~args.ok THEN Throw(args.env, args.st)
               ELSE ApplyProcedure(fun.v, args.vals, args.env, args.st)

\* Lambda::eval (evaluation.cpp 501-503)
EvalLambda(e, env, st) ==
    LET o == NewObject(st) IN Ok(ProcedureV(e.x, e.e, env, o.id), env, o.st)

\* A set! that evaluates the expression before it looks the name up.
EvalSet_evaluatesFirst(e, env, st) ==
    LET nv == Eval(e.e, env, st)
    IN IF ~nv.ok THEN nv
       ELSE IF ~Bound(e.var, nv.env) THEN Throw(nv.env, nv.st)
       ELSE Ok(VoidV, nv.env, [nv.st EXCEPT !.cells = modify(e.var, nv.v, nv.env, @)])
\* A set! that rebinds the name in the caller's chain instead of writing its cell.
EvalSet_rebinds(e, env, st) ==
    IF ~Bound(e.var, env) THEN Throw(env, st)
    ELSE LET nv == Eval(e.e, env, st)
         IN IF ~nv.ok THEN nv
            ELSE LET x == extend(e.var, nv.v, nv.env, nv.st.cells)
                 IN Ok(VoidV, x.env, [nv.st EXCEPT !.cells = x.cells])

\* Set::eval (evaluation.cpp 556-562)
EvalSet(e, env, st) ==
    IF ~Bound(e.var, env) THEN Throw(env, st)
    ELSE LET nv == Eval(e.e, env, st)
         IN IF ~nv.ok THEN nv
            ELSE Ok(VoidV, nv.env, [nv.st EXCEPT !.cells = modify(e.var, nv.v, nv.env, @)])

\* Define::eval (evaluation.cpp 527-535)
EvalDefine(e, env, st) ==
    LET x == IF Bound(e.var, env) THEN [env |-> env, cells |-> st.cells]
             ELSE extend(e.var, VoidV, env, st.cells)
        rhs == Eval(e.e, x.env, [st EXCEPT !.cells = x.cells])
    IN IF ~rhs.ok THEN rhs
       ELSE Ok(VoidV, rhs.env, [rhs.st EXCEPT !.cells = modify(e.var, rhs.v, rhs.env, @)])

\* Let::eval (evaluation.cpp 537-544)
EvalLet(e, env, st) ==
    LET vals == EvalSeq([i \in 1..Len(e.bind) |-> e.bind[i].second], 1, <<>>, env, st)
    IN IF ~vals.ok THEN Throw(vals.env, vals.st)
       ELSE LET x == ExtendWith([i \in 1..Len(e.bind) |-> e.bind[i].first], vals.vals, 1,
                                vals.env, vals.st.cells)
                r == Eval(e.body, x.env, [vals.st EXCEPT !.cells = x.cells])
            IN [ok |-> r.ok, v |-> r.v, env |-> vals.env, st |-> r.st]

\* Letrec::eval (evaluation.cpp 546-554)
EvalLetrec(e, env, st) ==
    LET x == ExtendAll([i \in 1..Len(e.bind) |-> e.bind[i].first], 1, env, st.cells)
        init == LetrecInit(e.bind, 1, x.env, [st EXCEPT !.cells = x.cells])
    IN IF ~init.ok THEN Throw(env, init.st)
       ELSE LET r == Eval(e.body, init.env, init.st)
            IN [ok |-> r.ok, v |-> r.v, env |-> env, st |-> r.st]

\* If::eval (evaluation.cpp 470-474)
EvalIf(e, env, st) ==
    LET c == Eval(e.cond, env, st)
    IN IF ~c.ok THEN c
       ELSE IF IsFalseV(c.v) THEN Eval(e.alter, c.env, c.st)
       ELSE Eval(e.conseq, c.env, c.st)

\* Var::eval (evaluation.cpp 125-133)
EvalVar(e, env, st) ==
    IF Bound(e.x, env) THEN Ok(find(e.x, env, st.cells), env, st)
    ELSE IF e.x \in DOMAIN primitives
    THEN LET o == NewObject(st)
         IN Ok(makePrimitiveClosure(primitives[e.x], env, o.id), env, o.st)
    ELSE Throw(env, st)

Eval(e, env, st) ==
    CASE e.ty = "Fixnum" -> Ok(IntegerV(e.n), env, st)
      [] e.ty = "RationalNum" -> Ok(RationalV(e.numerator, e.denominator), env, st)
      [] e.ty = "StringExpr" -> LET o == NewObject(st) IN Ok(StringV(e.s, o.id), env, o.st)
      [] e.ty = "True" -> Ok(BooleanV(TRUE), env, st)
      [] e.ty = "False" -> Ok(BooleanV(FALSE), env, st)
      [] e.ty = "MakeVoid" -> Ok(VoidV, env, st)
      [] e.ty = "Exit" ->
            LET o == NewObject(st)
            IN Ok(TerminateV(o.id), env, [o.st EXCEPT !.exits = @ + 1])
      [] e.ty = "Unary" ->
            LET r == Eval(e.rand, env, st)
            IN IF ~r.ok THEN r
               ELSE LET res == UnaryRator(e.op, r.v, r.st)
                    IN [ok |-> res.ok, v |-> res.v, env |-> r.env, st |-> res.st]
      [] e.ty = "Binary" -> EvalBinary(e, env, st)
      [] e.ty = "Variadic" ->
            LET vals == EvalSeq(e.rands, 1, <<>>, env, st)
            IN IF ~vals.ok THEN Throw(vals.env, vals.st)
               ELSE LET res == VariadicRator(e.op, vals.vals, vals.st)
                    IN [ok |-> res.ok, v |-> res.v, env |-> vals.env, st |-> res.st]
      [] e.ty = "AndVar" -> AndLoop(e.rands, 1, BooleanV(TRUE), env, st)
      [] e.ty = "OrVar" -> OrLoop(e.rands, 1, env, st)
      [] e.ty = "Begin" -> BeginLoop(e.es, 1, <<>>, VoidV, env, st)
      [] e.ty = "Quote" -> EvalQuote(e, env, st)
      [] e.ty = "If" -> EvalIf(e, env, st)
      [] e.ty = "Cond" -> CondLoop(e.clauses, 1, env, st)
      [] e.ty = "Var" -> EvalVar(e, env, st)
      [] e.ty = "Apply" -> EvalApply(e, env, st)
      [] e.ty = "Lambda" -> EvalLambda(e, env, st)
      [] e.ty = "Define" -> EvalDefine(e, env, st)
      [] e.ty = "Let" -> EvalLet(e, env, st)
      [] e.ty = "Letrec" -> EvalLetrec(e, env, st)
      [] e.ty = "Set" -> EvalSet(e, env, st)

-----------------------------------------------------------------------------
(* Reader (syntax.cpp).  A token, like the stream, is the sequence of its   *)
(* characters.                                                              *)

DigitValue(c) ==
    CASE c = "0" -> 0 [] c = "1" -> 1 [] c = "2" -> 2 [] c = "3" -> 3 [] c = "4" -> 4
      [] c = "5" -> 5 [] c = "6" -> 6 [] c = "7" -> 7 [] c = "8" -> 8 [] c = "9" -> 9
      [] OTHER -> -1

RECURSIVE DigitsValue(_, _, _)
DigitsValue(s, i, n) ==
    IF i > Len(s) THEN n ELSE DigitsValue(s, i + 1, n * 10 + DigitValue(s[i]))

\* tryParseNumber: [ok, result].  s[0] of the empty token is the
\* terminating null character, which is neither a sign nor a digit.
tryParseNumber(s) ==
    IF Len(s) = 1 /\ s[1] \in {"+", "-"} THEN [ok |-> FALSE, result |-> 0]
    ELSE LET neg == Len(s) > 0 /\ s[1] = "-"
             start == IF Len(s) > 0 /\ s[1] \in {"+", "-"} THEN 2 ELSE 1
         IN IF \E i \in start..Len(s) : DigitValue(s[i]) < 0
            THEN [ok |-> FALSE, result |-> 0]
            ELSE LET n == DigitsValue(s, start, 0)
                 IN [ok |-> TRUE, result |-> IF neg THEN -n ELSE n]

\* tryParseRational: [ok, numerator, denominator]
tryParseRational(s) ==
    LET no == [ok |-> FALSE, numerator |-> 0, denominator |-> 0]
        hasSlash == \E i \in 1..Len(s) : s[i] = "/"
        slash == CHOOSE i \in 1..Len(s) : s[i] = "/" /\ \A j \in 1..(i-1) : s[j] # "/"
    IN IF ~hasSlash THEN no
       ELSE IF slash = 1 \/ slash = Len(s) THEN no
       ELSE LET num == tryParseNumber(SubSeq(s, 1, slash - 1))
                den == tryParseNumber(SubSeq(s, slash + 1, Len(s)))
            IN IF ~num.ok THEN no
               ELSE IF ~den.ok \/ den.result <= 0 THEN no
               ELSE [ok |-> TRUE, numerator |-> num.result, denominator |-> den.result]

\* The std::string of a token: its characters in one string.
RECURSIVE TokenString(_)
TokenString(s) == IF s = <<>> THEN "" ELSE Head(s) \o TokenString(Tail(s))

\* createIdentifierSyntax (syntax.cpp 91-95)
createIdentifierSyntax(s) ==
    IF s = <<"#", "t">> THEN TrueSyntax
    ELSE IF s = <<"#", "f">> THEN FalseSyntax
    ELSE SymbolSyntax(TokenString(s))

\* The end of readItem (syntax.cpp 146-154): what the scanned token s is.
readItemToken(s) ==
    LET r == tryParseRational(s)
        n == tryParseNumber(s)
    IN IF r.ok THEN RationalSyntax(r.numerator, r.denominator)
       ELSE IF n.ok THEN Number(n.result)
       ELSE createIdentifierSyntax(s)

\* readSyntax on an exhausted stream: peek() is EOF, so the token scan of
\* readItem (syntax.cpp 134-144) stops at once with the empty token.
readSyntaxAtEof == readItemToken(<<>>)

\* The reader over a stream s of characters, read from position i on; the
\* stream is at end of file when i > Len(s).  A reading is [diverges, stx, i]:
\* the Syntax read and the position after it, or diverges when the reader
\* never returns.
isspace(c) == c \in {" ", "\n", "\t", "\r"}
Peek(s, i) == IF i > Len(s) THEN "EOF" ELSE s[i]
Diverges == [diverges |-> TRUE, stx |-> [k |-> "none"], i |-> 0]

\* readSpace (syntax.cpp 48-60): the position of the next character that is
\* neither white space nor part of a comment.
RECURSIVE readSpace(_, _), SkipComment(_, _)
SkipComment(s, i) == IF Peek(s, i) \in {"\n", "EOF"} THEN i ELSE SkipComment(s, i + 1)
readSpace(s, i) ==
    IF isspace(Peek(s, i)) THEN readSpace(s, i + 1)
    ELSE IF Peek(s, i) = ";" THEN readSpace(s, SkipComment(s, i))
    ELSE i

\* The string scan of readItem (syntax.cpp 112-131), after the opening quote.
RECURSIVE ReadString(_, _, _)
ReadString(s, i, str) ==
    IF Peek(s, i) = "EOF" THEN [diverges |-> FALSE, stx |-> StringSyntax(str), i |-> i]
    ELSE IF Peek(s, i) = "\"" THEN [diverges |-> FALSE, stx |-> StringSyntax(str), i |-> i + 1]
    ELSE IF Peek(s, i) = "\\" /\ Peek(s, i + 1) # "EOF"
    THEN LET next == s[i + 1]
             c == CASE next = "n" -> "\n" [] next = "t" -> "\t" [] next = "r" -> "\r"
                    [] OTHER -> next
         IN ReadString(s, i + 2, str \o c)
    ELSE ReadString(s, i + 1, str \o s[i])

\* The token scan of readItem (syntax.cpp 133-144): the position of the first
\* character that ends a token.
RECURSIVE TokenEnd(_, _)
TokenEnd(s, i) ==
    LET c == Peek(s, i)
    IN IF c \in {"(", ")", "[", "]", ";", "EOF"} \/ isspace(c) THEN i ELSE TokenEnd(s, i + 1)

RECURSIVE readItem(_, _), readList(_, _, _)

\* readItem (syntax.cpp 98-155)
readItem(s, i) ==
    IF Peek(s, i) \in {"(", "["} THEN readList(s, i + 1, <<>>)
    ELSE IF Peek(s, i) = "'"
    THEN LET q == readItem(s, i + 1)
         IN IF q.diverges THEN Diverges
            ELSE [diverges |-> FALSE, stx |-> List(<<SymbolSyntax("quote"), q.stx>>), i |-> q.i]
    ELSE IF Peek(s, i) = "\"" THEN ReadString(s, i + 1, "")
    ELSE LET j == TokenEnd(s, i)
         IN [diverges |-> FALSE, stx |-> readItemToken(SubSeq(s, i, j - 1)), i |-> j]

\* readList (syntax.cpp 157-163) with stxs read so far: the loop ends only at
\* a `)`.  An item read without consuming a character (the empty token before
\* a `]` or at end of file) leaves the stream where it was, so the same item is
\* read again for ever.
readList(s, i, stxs) ==
    LET j == readSpace(s, i)
    IN IF Peek(s, j) = ")" THEN [diverges |-> FALSE, stx |-> List(stxs), i |-> j + 1]
       ELSE LET item == readItem(s, j)
            IN IF item.diverges \/ item.i = j THEN Diverges
               ELSE readList(s, item.i, Append(stxs, item.stx))

\* readSyntax (syntax.cpp 165-167)
readSyntax(s) == readItem(s, readSpace(s, 1))

-----------------------------------------------------------------------------
(* Driver (main.cpp: isExplicitVoidCall, REPL).                             *)

RECURSIVE isExplicitVoidCall(_)
isExplicitVoidCall(e) ==
    CASE e.ty = "MakeVoid" -> TRUE
      [] e.ty = "Apply" -> e.rator.ty = "Var" /\ e.rator.x = "void"
      [] e.ty = "Begin" -> Len(e.es) > 0 /\ isExplicitVoidCall(e.es[Len(e.es)])
      [] e.ty = "If" -> isExplicitVoidCall(e.conseq) \/ isExplicitVoidCall(e.alter)
      [] e.ty = "Cond" ->
            \E i \in 1..Len(e.clauses) :
                Len(e.clauses[i]) > 0 /\ isExplicitVoidCall(e.clauses[i][Len(e.clauses[i])])
      [] OTHER -> FALSE

\* A first loop that gives every pending name a fresh cell, as Begin's flush does.
RECURSIVE DriverPlaceholders_alwaysExtend(_, _, _, _)
DriverPlaceholders_alwaysExtend(pending, i, env, store) ==
    IF i > Len(pending) THEN [env |-> env, cells |-> store]
    ELSE LET x == extend(pending[i].first, VoidV, env, store)
         IN DriverPlaceholders_alwaysExtend(pending, i + 1, x.env, x.cells)

\* REPL's first loop over pending_defines (main.cpp 55-59).
RECURSIVE DriverPlaceholders(_, _, _, _)
DriverPlaceholders(pending, i, env, store) ==
    IF i > Len(pending) THEN [env |-> env, cells |-> store]
    ELSE IF Bound(pending[i].first, env) THEN DriverPlaceholders(pending, i + 1, env, store)
    ELSE LET x == extend(pending[i].first, VoidV, env, store)
         IN DriverPlaceholders(pending, i + 1, x.env, x.cells)

\* What REPL writes for the value of expression e (main.cpp 71-77).
PrintValue(v, e, ps) ==
    IF v.t # "V_VOID" \/ isExplicitVoidCall(e)
    THEN <<ShowTok(v, ps), NewlineTok>>
    ELSE <<NewlineTok>>

NoStx == [k |-> "none"]
NoExpr == [ty |-> "none"]
Result(kind, v, exited) == [kind |-> kind, v |-> v, exited |-> exited]

-----------------------------------------------------------------------------
(* The input: top-level forms as readSyntax delivers them.                  *)

MaxForms == 3      \* forms on the input stream before its end
MaxEofReads == 2   \* reads the driver is followed through at end of file

Sx(s) == SymbolSyntax(s)
Call1(f, a) == List(<<Sx(f), a>>)
Call2(f, a, b) == List(<<Sx(f), a, b>>)
DefineSx(x, rhs) == List(<<Sx("define"), Sx(x), rhs>>)
DefineFun(header, body) == List(<<Sx("define"), List(header), body>>)

ExitCall == List(<<Sx("exit")>>)                         \* (exit)
CarOf1 == Call1("car", Number(1))                        \* (car 1): fails at run time
CarNoArgs == List(<<Sx("car")>>)                         \* (car): fails at parse time
DefineX1 == DefineSx("x", Number(1))                     \* (define x 1)
DefineYBad == DefineSx("y", CarOf1)                      \* (define y (car 1))
DefineW0 == DefineSx("w", Number(0))                     \* (define w 0)
DefineZExit == DefineSx("z", ExitCall)                   \* (define z (exit))
Lit5 == Number(5)                                        \* 5
ExitInPlus == Call2("+", Number(1), ExitCall)            \* (+ 1 (exit))
ExitInCons == Call2("cons", Number(1), ExitCall)         \* (cons 1 (exit))
ExitInIf == List(<<Sx("if"), ExitCall, Number(1), Number(2)>>)  \* (if (exit) 1 2)
\* (define (fact n) (if (= n 0) 1 (* n (fact (- n 1)))))
DefineFact ==
    DefineFun(<<Sx("fact"), Sx("n")>>,
        List(<<Sx("if"), Call2("=", Sx("n"), Number(0)), Number(1),
               Call2("*", Sx("n"), Call1("fact", Call2("-", Sx("n"), Number(1))))>>))
CallFact5 == Call1("fact", Number(5))                    \* (fact 5)

\* (define (ev n) (if (= n 0) #t (od (- n 1))))
DefineEv ==
    DefineFun(<<Sx("ev"), Sx("n")>>,
        List(<<Sx("if"), Call2("=", Sx("n"), Number(0)), TrueSyntax,
               Call1("od", Call2("-", Sx("n"), Number(1)))>>))
\* (define (od n) (if (= n 0) #f (ev (- n 1))))
DefineOd ==
    DefineFun(<<Sx("od"), Sx("n")>>,
        List(<<Sx("if"), Call2("=", Sx("n"), Number(0)), FalseSyntax,
               Call1("ev", Call2("-", Sx("n"), Number(1)))>>))
CallEv2 == Call1("ev", Number(2))                        \* (ev 2)
BeginEvOd == List(<<Sx("begin"), DefineEv, DefineOd, CallEv2>>)
DefinePQ == DefineSx("p", Sx("q"))                       \* (define p q)
DefineQ1 == DefineSx("q", Number(1))                     \* (define q 1)
RefP == Sx("p")                                          \* p
BeginPQ == List(<<Sx("begin"), DefinePQ, DefineQ1, RefP>>)

\* (begin (define x 1) (define (getx) x) (define (setx v) (set! x v)))
SetupX ==
    List(<<Sx("begin"), DefineX1,
           DefineFun(<<Sx("getx")>>, Sx("x")),
           DefineFun(<<Sx("setx"), Sx("v")>>, Call2("set!", Sx("x"), Sx("v")))>>)
SetX2 == Call2("set!", Sx("x"), Number(2))               \* (set! x 2)
CallSetX3 == Call1("setx", Number(3))                    \* (setx 3)
CallGetX == List(<<Sx("getx")>>)                         \* (getx)
\* (define counter (let ((n 0)) (lambda () (begin (set! n (+ n 1)) n))))
DefineCounter ==
    DefineSx("counter",
        List(<<Sx("let"), List(<<List(<<Sx("n"), Number(0)>>)>>),
               List(<<Sx("lambda"), List(<<>>),
                      List(<<Sx("begin"),
                             Call2("set!", Sx("n"), Call2("+", Sx("n"), Number(1))),
                             Sx("n")>>)>>)>>))
CallCounter == List(<<Sx("counter")>>)                   \* (counter)

LambdaSx(params, body) == List(<<Sx("lambda"), List(params), body>>)
\* ((lambda (x) (+ x 1 2)) 5)
ApplyPlus3 ==
    List(<<LambdaSx(<<Sx("x")>>, List(<<Sx("+"), Sx("x"), Number(1), Number(2)>>)), Number(5)>>)
\* ((lambda (x y) (list x y x)) 1 2)
ApplyList3 ==
    List(<<LambdaSx(<<Sx("x"), Sx("y")>>, List(<<Sx("list"), Sx("x"), Sx("y"), Sx("x")>>)),
           Number(1), Number(2)>>)
\* ((lambda (x) (* x x)) 3)
ApplySquare == List(<<LambdaSx(<<Sx("x")>>, Call2("*", Sx("x"), Sx("x"))), Number(3)>>)
Const7 == LambdaSx(<<Sx("x")>>, Number(7))               \* (lambda (x) 7)
\* (let ((car (lambda (x) 7))) (car 1))
LetCar == List(<<Sx("let"), List(<<List(<<Sx("car"), Const7>>)>>), CarOf1>>)
\* ((lambda (car) (car 1)) (lambda (x) 7))
LambdaCar == List(<<LambdaSx(<<Sx("car")>>, CarOf1), Const7>>)

\* (begin (define a (cons 1 2)) (define b a) (define c (cons a 3)))
SetupPairs ==
    List(<<Sx("begin"), DefineSx("a", Call2("cons", Number(1), Number(2))),
           DefineSx("b", Sx("a")),
           DefineSx("c", Call2("cons", Sx("a"), Number(3)))>>)
SetCarA9 == Call2("set-car!", Sx("a"), Number(9))        \* (set-car! a 9)
SetCdrB8 == Call2("set-cdr!", Sx("b"), Number(8))        \* (set-cdr! b 8)
CarB == Call1("car", Sx("b"))                            \* (car b)
CdrA == Call1("cdr", Sx("a"))                            \* (cdr a)
CarCarC == Call1("car", Call1("car", Sx("c")))           \* (car (car c))
SetCarOf5 == Call2("set-car!", Number(5), Number(1))     \* (set-car! 5 1)
\* (let ((p (cons 1 2))) (set-car! p 9) (car p))
LetSetCar ==
    List(<<Sx("let"), List(<<List(<<Sx("p"), Call2("cons", Number(1), Number(2))>>)>>),
           Call2("set-car!", Sx("p"), Number(9)), Call1("car", Sx("p"))>>)

\* (letrec ((ev (lambda (n) (if (= n 0) #t (od (- n 1)))))
\*          (od (lambda (n) (if (= n 0) #f (ev (- n 1))))))
\*   (ev 2))
LetrecEvOd ==
    List(<<Sx("letrec"),
           List(<<List(<<Sx("ev"), LambdaSx(<<Sx("n")>>, DefineEv.stxs[3])>>),
                  List(<<Sx("od"), LambdaSx(<<Sx("n")>>, DefineOd.stxs[3])>>)>>),
           CallEv2>>)
\* (letrec ((f (lambda (y) (car y))) (car (lambda (x) 7))) (f 1))
LetrecCar ==
    List(<<Sx("letrec"),
           List(<<List(<<Sx("f"), LambdaSx(<<Sx("y")>>, Call1("car", Sx("y")))>>),
                  List(<<Sx("car"), Const7>>)>>),
           Call1("f", Number(1))>>)
\* (letrec ((a b) (b 1)) a)
LetrecForward ==
    List(<<Sx("letrec"),
           List(<<List(<<Sx("a"), Sx("b")>>), List(<<Sx("b"), Number(1)>>)>>),
           Sx("a")>>)

QuoteSx(d) == List(<<Sx("quote"), d>>)
\* Operands whose value is not #f: '() 0 0/1 "" (void) 'a (cons 1 2)
\* (lambda (x) 7) car
TruthyOperands ==
    {QuoteSx(List(<<>>)), Number(0), RationalSyntax(0, 1), StringSyntax(""),
     List(<<Sx("void")>>), QuoteSx(Sx("a")), Call2("cons", Number(1), Number(2)),
     Const7, Sx("car")}
\* (list (if v 1 2) (cond (v 1) (else 2)) (and v 1) (or v 2) (not v))
TruthForm(v) ==
    List(<<Sx("list"),
           List(<<Sx("if"), v, Number(1), Number(2)>>),
           List(<<Sx("cond"), List(<<v, Number(1)>>), List(<<Sx("else"), Number(2)>>)>>),
           Call2("and", v, Number(1)),
           Call2("or", v, Number(2)),
           Call1("not", v)>>)
TruthForms == {TruthForm(v) : v \in TruthyOperands \cup {FalseSyntax}}

DivBy0 == Call2("/", Number(1), Number(0))               \* (/ 1 0): fails at run time
DisplaySx(n) == Call1("display", Number(n))              \* (display n)
AndStop == Call2("and", FalseSyntax, DivBy0)             \* (and #f (/ 1 0))
OrStop == Call2("or", Number(1), DivBy0)                 \* (or 1 (/ 1 0))
AndEmpty == List(<<Sx("and")>>)                          \* (and)
OrEmpty == List(<<Sx("or")>>)                            \* (or)
AndLast == Call2("and", Number(1), Number(2))            \* (and 1 2)
OrNone == Call2("or", FalseSyntax, FalseSyntax)          \* (or #f #f)
\* (and (display 1) (display 2) #f (display 3))
AndEffects == List(<<Sx("and"), DisplaySx(1), DisplaySx(2), FalseSyntax, DisplaySx(3)>>)
\* (or #f (display 1) (display 3))
OrEffects == List(<<Sx("or"), FalseSyntax, DisplaySx(1), DisplaySx(3)>>)
AndReachesError == Call2("and", Number(1), DivBy0)       \* (and 1 (/ 1 0))
OrReachesError == Call2("or", FalseSyntax, DivBy0)       \* (or #f (/ 1 0))
ShortCircuitForms ==
    {AndStop, OrStop, AndEmpty, OrEmpty, AndLast, OrNone, AndEffects, OrEffects,
     AndReachesError, OrReachesError}

Dot == Sx(".")
QuoteDotted == QuoteSx(List(<<Number(1), Dot, Number(2)>>))                \* '(1 . 2)
QuoteDotted3 == QuoteSx(List(<<Number(1), Number(2), Dot, Number(3)>>))    \* '(1 2 . 3)
QuoteProper == QuoteSx(List(<<Number(1), Number(2)>>))                     \* '(1 2)
QuoteDotLast == QuoteSx(List(<<Number(1), Dot>>))                          \* '(1 .)
QuoteDotTwoAfter == QuoteSx(List(<<Number(1), Dot, Number(2), Number(3)>>)) \* '(1 . 2 3)
QuoteTwoDots == QuoteSx(List(<<Number(1), Dot, Number(2), Dot, Number(3)>>)) \* '(1 . 2 . 3)
WellPlacedDot == {QuoteDotted, QuoteDotted3}
MisplacedDot == {QuoteDotLast, QuoteDotTwoAfter, QuoteTwoDots}

\* Calls of built-ins with an illegal number of operands; the operands write.
BadArityForms ==
    {List(<<Sx("car"), DisplaySx(1), DisplaySx(2)>>),      \* (car (display 1) (display 2))
     Call1("cons", DisplaySx(1)),                          \* (cons (display 1))
     List(<<Sx("not")>>),                                  \* (not)
     Call1("modulo", DisplaySx(1)),                        \* (modulo (display 1))
     List(<<Sx("expt"), Number(1), Number(2), Number(3)>>), \* (expt 1 2 3)
     Call1("eq?", DisplaySx(1)),                           \* (eq? (display 1))
     Call1("void", DisplaySx(1)),                          \* (void (display 1))
     Call1("exit", DisplaySx(1)),                          \* (exit (display 1))
     List(<<Sx("-")>>),                                    \* (-)
     List(<<Sx("/")>>),                                    \* (/)
     Call1("<", DisplaySx(1)),                             \* (< (display 1))
     List(<<Sx("<=")>>),                                   \* (<=)
     Call1("=", Number(1)),                                \* (= 1)
     Call1(">=", Number(1)),                               \* (>= 1)
     Call1(">", DisplaySx(1)),                             \* (> (display 1))
     List(<<Sx("begin"), DisplaySx(1), List(<<Sx("-")>>)>>), \* (begin (display 1) (-))
     Call2("list", DisplaySx(1), CarNoArgs)}               \* (list (display 1) (car))
\* Legal counts next to the illegal ones: (- 1) (display 1) (< 1 2 3)
GoodArityForms ==
    {Call1("-", Number(1)), DisplaySx(1), List(<<Sx("<"), Number(1), Number(2), Number(3)>>),
     DivBy0}

Half == RationalSyntax(1, 2)                             \* 1/2
RationalForms ==
    {Half, RationalSyntax(-1, 2),                          \* 1/2  -1/2
     Call2("+", Half, RationalSyntax(1, 3)),               \* (+ 1/2 1/3)
     Call1("-", Half),                                     \* (- 1/2)
     Call2("*", Half, RationalSyntax(-2, 3)),              \* (* 1/2 -2/3)
     Call2("/", Number(1), Number(2)),                     \* (/ 1 2)
     Call2("/", Number(1), Number(-2)),                    \* (/ 1 -2)
     Call1("/", Number(-2)),                               \* (/ -2)
     List(<<Sx("/"), Number(3), Number(4), Number(-5)>>),  \* (/ 3 4 -5)
     List(<<Sx("+"), Half, Half, Half>>),                  \* (+ 1/2 1/2 1/2)
     DefineSx("r", Call2("/", Half, RationalSyntax(-1, 3)))} \* (define r (/ 1/2 -1/3))

\* Forms every suite holds, so that every path of the driver is taken.
BaseForms == {DefineW0, DefineYBad, ExitCall, CarNoArgs}

\* Names of built-ins and of a special form, defined at top level:
\* (define (car x) x)  (define (+ a b) 0)  (define (if a b c) 7)  (define list 5)
\* and the forms that use them: (car 5)  (+ 1 2)  (if 1 2 3)  (list 1)
RedefineCar == DefineFun(<<Sx("car"), Sx("x")>>, Sx("x"))
RedefinePlus == DefineFun(<<Sx("+"), Sx("a"), Sx("b")>>, Number(0))
RedefineIf == DefineFun(<<Sx("if"), Sx("a"), Sx("b"), Sx("c")>>, Number(7))
CallCar5 == Call1("car", Number(5))
CallPlus12 == Call2("+", Number(1), Number(2))
CallIf123 == List(<<Sx("if"), Number(1), Number(2), Number(3)>>)
RedefineForms == {RedefineCar, RedefinePlus, RedefineIf}
RedefinedCalls == {CallCar5, CallPlus12, CallIf123}
RedefineSuite == BaseForms \cup RedefineForms \cup RedefinedCalls \cup {DivBy0}

DriverForms ==
    BaseForms \cup {DefineX1, DefineZExit, Lit5, CarOf1, ExitInPlus, ExitInCons, ExitInIf,
                    DefineFact, CallFact5}

BatchForms ==
    BaseForms \cup {DefineEv, DefineOd, CallEv2, BeginEvOd, DefinePQ, DefineQ1, RefP, BeginPQ}

\* (set! z (display 7))  (set! w (display 7))
\* ((lambda (x) (begin (set! x 2) x)) 3)
SetZDisplay == Call2("set!", Sx("z"), DisplaySx(7))
SetWDisplay == Call2("set!", Sx("w"), DisplaySx(7))
ShadowSetX ==
    List(<<LambdaSx(<<Sx("x")>>, List(<<Sx("begin"), SetX2, Sx("x")>>)), Number(3)>>)
SetCalls == {SetX2, SetZDisplay, SetWDisplay}
SetSuite == BaseForms \cup SetCalls \cup {DefineX1, ShadowSetX, DivBy0}

\* Forms that bind q or car while they are parsed, and uses of q and car:
\* (lambda (q) q)  (lambda (car) 1)  (define (g q car) q)  (let ((q 1)) q)
\* (letrec ((q 1) (car 2)) q)  (lambda (q) (car))  q  (car 1)
LambdaQ == LambdaSx(<<Sx("q")>>, Sx("q"))
LambdaCarParam == LambdaSx(<<Sx("car")>>, Number(1))
DefineGQ == DefineFun(<<Sx("g"), Sx("q"), Sx("car")>>, Sx("q"))
LetQ == List(<<Sx("let"), List(<<List(<<Sx("q"), Number(1)>>)>>), Sx("q")>>)
LetrecQ ==
    List(<<Sx("letrec"),
           List(<<List(<<Sx("q"), Number(1)>>), List(<<Sx("car"), Number(2)>>)>>),
           Sx("q")>>)
LambdaQBad == LambdaSx(<<Sx("q")>>, CarNoArgs)
RefQ == Sx("q")
BinderForms == {LambdaQ, LambdaCarParam, DefineGQ, LetQ, LetrecQ, LambdaQBad}
PlaceholderSuite == BaseForms \cup BinderForms \cup {RefQ, CarOf1}

\* A first batch of top-level defines, the forms that end it, and forms
\* that come after it:
\* (define x 1) (define (getx) x) (define (getzz) zz)
\* 5  (car)  (/ 1 0)
\* (define zz 5)  (define x 2)  (getzz)  (getx)
DefineGetX == DefineFun(<<Sx("getx")>>, Sx("x"))
DefineGetZZ == DefineFun(<<Sx("getzz")>>, Sx("zz"))
DefineZZ5 == DefineSx("zz", Number(5))
DefineX2 == DefineSx("x", Number(2))
CallGetZZ == List(<<Sx("getzz")>>)
FirstBatch == <<DefineX1, DefineGetX, DefineGetZZ>>
Separators == {Lit5, CarNoArgs, DivBy0}
VisibilitySuite == BaseForms \cup {DefineZZ5, DefineX2, CallGetZZ, CallGetX}

\* (define d (display 7)), and the forms read after it.
DefineDisplay == DefineSx("d", DisplaySx(7))
OnceSuite == BaseForms \cup {Lit5, DivBy0}

ClosureForms ==
    BaseForms \cup {SetupX, SetX2, CallSetX3, CallGetX, DefineCounter, CallCounter}

\* Calls of a lambda of k parameters with n # k arguments:
\* ((lambda (x) (display 1)) 1 2)  ((lambda (x y) (display 1)) 1)
\* ((lambda () (display 1)) 5)  ((lambda (x) x))
\* ((lambda (x) (begin (display 1) x)) 1 2)  ((lambda (x) (set-car! (cons 1 2) x)))
\* ((lambda (x) (+ x 1 2)) 5 6)  ((lambda (x y) (list x y x)) 1)
MismatchCalls ==
    {List(<<LambdaSx(<<Sx("x")>>, DisplaySx(1)), Number(1), Number(2)>>),
     List(<<LambdaSx(<<Sx("x"), Sx("y")>>, DisplaySx(1)), Number(1)>>),
     List(<<LambdaSx(<<>>, DisplaySx(1)), Number(5)>>),
     List(<<LambdaSx(<<Sx("x")>>, Sx("x"))>>),
     List(<<LambdaSx(<<Sx("x")>>, List(<<Sx("begin"), DisplaySx(1), Sx("x")>>)),
            Number(1), Number(2)>>),
     List(<<LambdaSx(<<Sx("x")>>,
                     Call2("set-car!", Call2("cons", Number(1), Number(2)), Sx("x")))>>),
     List(<<LambdaSx(<<Sx("x")>>, List(<<Sx("+"), Sx("x"), Number(1), Number(2)>>)),
            Number(5), Number(6)>>),
     List(<<LambdaSx(<<Sx("x"), Sx("y")>>, List(<<Sx("list"), Sx("x"), Sx("y"), Sx("x")>>)),
            Number(1)>>)}

ApplyForms ==
    BaseForms \cup {ApplyPlus3, ApplyList3, ApplySquare, LetCar, LambdaCar} \cup MismatchCalls

PairForms ==
    BaseForms \cup {SetupPairs, SetCarA9, SetCdrB8, CarB, CdrA, CarCarC, SetCarOf5, LetSetCar}

LetrecForms == BaseForms \cup {LetrecEvOd, LetrecCar, LetrecForward}

TruthSuite == BaseForms \cup TruthForms \cup {DivBy0}

ShortCircuitSuite == BaseForms \cup ShortCircuitForms
QuoteSuite == BaseForms \cup WellPlacedDot \cup MisplacedDot \cup {QuoteProper}
AritySuite == BaseForms \cup BadArityForms \cup GoodArityForms
RationalSuite == BaseForms \cup RationalForms \cup {DivBy0}

\* Parameter lists: (lambda (x x) x)  ((lambda (x x) x) 1 2)  (define (f a a) a)
\* (lambda (x 1) x)  (lambda ("a") 1)  (lambda ((y)) 1)  (define (g 1) 1)
\* (lambda (x y) x)  (define (h a b) a)
LambdaDup == LambdaSx(<<Sx("x"), Sx("x")>>, Sx("x"))
LambdaDupCall == List(<<LambdaDup, Number(1), Number(2)>>)
DefineDup == DefineFun(<<Sx("f"), Sx("a"), Sx("a")>>, Sx("a"))
LambdaNumberParam == LambdaSx(<<Sx("x"), Number(1)>>, Sx("x"))
LambdaStringParam == LambdaSx(<<StringSyntax("a")>>, Number(1))
LambdaListParam == LambdaSx(<<List(<<Sx("y")>>)>>, Number(1))
DefineNumberParam == DefineFun(<<Sx("g"), Number(1)>>, Number(1))
LambdaDistinct == LambdaSx(<<Sx("x"), Sx("y")>>, Sx("x"))
DefineDistinct == DefineFun(<<Sx("h"), Sx("a"), Sx("b")>>, Sx("a"))
RepeatedParamForms == {LambdaDup, LambdaDupCall, DefineDup}
NonSymbolParamForms ==
    {LambdaNumberParam, LambdaStringParam, LambdaListParam, DefineNumberParam}
ParamSuite ==
    BaseForms \cup RepeatedParamForms \cup NonSymbolParamForms
        \cup {LambdaDistinct, DefineDistinct, DivBy0}

Suites ==
    {"driver", "batch", "closure", "apply", "pairs", "letrec", "truth", "shortcircuit", "quote",
     "arity", "rational", "expt", "primitive", "reader", "eq",
     "redefine", "params", "cond",
     "set", "placeholders", "visibility", "once"}

Forms(su) ==
    CASE su = "driver" -> DriverForms
      [] su = "batch" -> BatchForms
      [] su = "closure" -> ClosureForms
      [] su = "apply" -> ApplyForms
      [] su = "pairs" -> PairForms
      [] su = "letrec" -> LetrecForms
      [] su = "truth" -> TruthSuite
      [] su = "shortcircuit" -> ShortCircuitSuite
      [] su = "quote" -> QuoteSuite
      [] su = "arity" -> AritySuite
      [] su = "rational" -> RationalSuite
      [] su = "expt" -> BaseForms
      [] su = "primitive" -> BaseForms
      [] su = "reader" -> BaseForms
      [] su = "eq" -> BaseForms \cup {DivBy0}
      [] su = "redefine" -> RedefineSuite
      [] su = "params" -> ParamSuite
      [] su = "cond" -> BaseForms \cup {DivBy0}
      [] su = "set" -> SetSuite
      [] su = "placeholders" -> PlaceholderSuite
      [] su = "visibility" -> VisibilitySuite
      [] su = "once" -> OnceSuite

\* Forms the driver has read in the initial state of a suite.
FormsAtInit(su) ==
    CASE su = "visibility" -> Len(FirstBatch) + 1
      [] su = "once" -> 1
      [] OTHER -> 0

\* What the next readSyntax(std::cin) can return, and the characters it
\* leaves on the stream: the Syntax read from the characters waiting, when
\* the stream is followed character by character and the read returns;
\* otherwise a form of the stream, or, once the stream is exhausted, what
\* readItem makes of end of file.
Inputs ==
    IF cin # <<>>
    THEN {[stx |-> r.stx, atEof |-> FALSE, rest |-> SubSeq(cin, r.i, Len(cin))] :
             r \in IF ~readSyntax(cin).diverges /\ nread < MaxForms + FormsAtInit(suite)
                   THEN {readSyntax(cin)} ELSE {}}
    ELSE {[stx |-> f, atEof |-> FALSE, rest |-> <<>>] :
             f \in IF ~eof /\ nread < MaxForms + FormsAtInit(suite)
                   THEN Forms(suite) ELSE {}}
         \cup {[stx |-> readSyntaxAtEof, atEof |-> TRUE, rest |-> <<>>] :
                  i \in IF neof < MaxEofReads THEN {1} ELSE {}}

-----------------------------------------------------------------------------
(* REPL (main.cpp 36-83), one action per step of the loop body.             *)

Init ==
    /\ parserUnit \in ParserUnits
    /\ argOrder \in ArgOrders
    /\ suite \in Suites
    /\ global_env = empty
    /\ cells = <<>>
    /\ pairs = <<>>
    /\ pending_defines = <<>>
    /\ out = <<>>
    /\ pc = "read"
    /\ replStx = NoStx
    /\ replExpr = NoExpr
    /\ replIdx = 0
    /\ eof = FALSE
    /\ nread = 0
    /\ neof = 0
    /\ cin = <<>>
    /\ result = Result("none", VoidV, FALSE)

\* readSyntax consumed input in.
Consume(in) ==
    /\ replStx' = in.stx
    /\ eof' = in.atEof
    /\ nread' = IF in.atEof THEN nread ELSE nread + 1
    /\ neof' = IF in.atEof THEN neof + 1 ELSE neof
    /\ cin' = in.rest

\* main.cpp 44-52: the form parses to a Define, which is only collected.
ReadDefine ==
    /\ pc = "read"
    /\ \E in \in Inputs :
          \E e \in {parseSyntax(in.stx, global_env)} :
             /\ ~Failed(e)
             /\ e.ty = "Define"
             /\ Consume(in)
             /\ pending_defines' = Append(pending_defines, [first |-> e.var, second |-> e.e])
    /\ replExpr' = NoExpr
    /\ result' = Result("define", VoidV, FALSE)
    /\ UNCHANGED <<parserUnit, argOrder, suite, global_env, cells, pairs, out, pc, replIdx>>

\* A read whose parse leaves its placeholder for q in the driver's chain.
ReadExpr_keepsPlaceholders ==
    /\ pc = "read"
    /\ \E in \in Inputs :
          \E e \in {parseSyntax(in.stx, global_env)} :
             /\ ~Failed(e)
             /\ e.ty # "Define"
             /\ Consume(in)
             /\ replExpr' = e
             /\ \E x \in {IF in.stx \in BinderForms THEN extend("q", VoidV, global_env, cells)
                          ELSE [env |-> global_env, cells |-> cells]} :
                   global_env' = x.env /\ cells' = x.cells
    /\ pc' = IF pending_defines # <<>> THEN "placeholders" ELSE "eval"
    /\ result' = Result("pending", VoidV, FALSE)
    /\ UNCHANGED <<parserUnit, argOrder, suite, pairs, pending_defines, out, replIdx>>
\* main.cpp 44-53: the form parses to something else.
ReadExpr ==
    /\ pc = "read"
    /\ \E in \in Inputs :
          \E e \in {parseSyntax(in.stx, global_env)} :
             /\ ~Failed(e)
             /\ e.ty # "Define"
             /\ Consume(in)
             /\ replExpr' = e
    /\ pc' = IF pending_defines # <<>> THEN "placeholders" ELSE "eval"
    /\ result' = Result("pending", VoidV, FALSE)
    /\ UNCHANGED <<parserUnit, argOrder, suite, global_env, cells, pairs, pending_defines,
                   out, replIdx>>

\* main.cpp 44-46: parse throws.
ReadParseError ==
    /\ pc = "read"
    /\ \E in \in Inputs :
          /\ Failed(parseSyntax(in.stx, global_env))
          /\ Consume(in)
    /\ replExpr' = NoExpr
    /\ pc' = "catch"
    /\ result' = Result("pending", VoidV, FALSE)
    /\ UNCHANGED <<parserUnit, argOrder, suite, global_env, cells, pairs, pending_defines,
                   out, replIdx>>

\* main.cpp 55-59: a cell for every pending name that has none.
CreatePlaceholders ==
    /\ pc = "placeholders"
    /\ \E x \in {DriverPlaceholders(pending_defines, 1, global_env, cells)} :
          /\ global_env' = x.env
          /\ cells' = x.cells
    /\ pc' = "defines"
    /\ replIdx' = 1
    /\ UNCHANGED <<parserUnit, argOrder, suite, cin, pairs, pending_defines, out, replStx,
                   replExpr, eof, nread, neof, result>>

\* main.cpp 61-65: one turn of the second loop; after the last, clear().
PendingDefine ==
    /\ pc = "defines"
    /\ \E def \in {pending_defines[replIdx]} :
       \E r \in {Eval(def.second, global_env, Store(cells, pairs, out))} :
          /\ r.ok
          /\ global_env' = r.env
          /\ cells' = modify(def.first, r.v, r.env, r.st.cells)
          /\ pairs' = r.st.pairs
          /\ out' = r.st.out
          /\ result' = [result EXCEPT !.exited = @ \/ r.st.exits > 0]
    /\ IF replIdx = Len(pending_defines)
       THEN pending_defines' = <<>> /\ pc' = "eval" /\ replIdx' = 0
       ELSE replIdx' = replIdx + 1 /\ UNCHANGED <<pending_defines, pc>>
    /\ UNCHANGED <<parserUnit, argOrder, suite, cin, replStx, replExpr, eof, nread, neof>>

\* main.cpp 62: the right-hand side throws.
PendingDefineThrows ==
    /\ pc = "defines"
    /\ \E def \in {pending_defines[replIdx]} :
       \E r \in {Eval(def.second, global_env, Store(cells, pairs, out))} :
          /\ ~r.ok
          /\ global_env' = r.env
          /\ cells' = r.st.cells
          /\ pairs' = r.st.pairs
          /\ out' = r.st.out
          /\ result' = [result EXCEPT !.exited = @ \/ r.st.exits > 0]
    /\ pc' = "catch"
    /\ replIdx' = 0
    /\ UNCHANGED <<parserUnit, argOrder, suite, cin, pending_defines, replStx, replExpr, eof,
                   nread, neof>>

\* main.cpp 68-77: the value is printed.
EvalPrint ==
    /\ pc = "eval"
    /\ \E r \in {Eval(replExpr, global_env, Store(cells, pairs, out))} :
          /\ r.ok
          /\ r.v.t # "V_TERMINATE"
          /\ global_env' = r.env
          /\ cells' = r.st.cells
          /\ pairs' = r.st.pairs
          /\ out' = r.st.out \o PrintValue(r.v, replExpr, r.st.pairs)
          /\ result' = Result("value", r.v, result.exited \/ r.st.exits > 0)
    /\ pc' = "read"
    /\ replExpr' = NoExpr
    /\ UNCHANGED <<parserUnit, argOrder, suite, cin, pending_defines, replStx, replIdx, eof,
                   nread, neof>>

\* main.cpp 68-69: the value is the terminate value; break.
EvalTerminate ==
    /\ pc = "eval"
    /\ \E r \in {Eval(replExpr, global_env, Store(cells, pairs, out))} :
          /\ r.ok
          /\ r.v.t = "V_TERMINATE"
          /\ global_env' = r.env
          /\ cells' = r.st.cells
          /\ pairs' = r.st.pairs
          /\ out' = r.st.out
          /\ result' = Result("terminate", r.v, result.exited \/ r.st.exits > 0)
    /\ pc' = "done"
    /\ replExpr' = NoExpr
    /\ UNCHANGED <<parserUnit, argOrder, suite, cin, pending_defines, replStx, replIdx, eof,
                   nread, neof>>

\* main.cpp 68: eval throws.
EvalThrows ==
    /\ pc = "eval"
    /\ \E r \in {Eval(replExpr, global_env, Store(cells, pairs, out))} :
          /\ ~r.ok
          /\ global_env' = r.env
          /\ cells' = r.st.cells
          /\ pairs' = r.st.pairs
          /\ out' = r.st.out
          /\ result' = [result EXCEPT !.exited = @ \/ r.st.exits > 0]
    /\ pc' = "catch"
    /\ replExpr' = NoExpr
    /\ UNCHANGED <<parserUnit, argOrder, suite, cin, pending_defines, replStx, replIdx, eof,
                   nread, neof>>

\* main.cpp 79-81: the handler, then the next iteration.
Catch ==
    /\ pc = "catch"
    /\ out' = Append(out, RuntimeErrorTok)
    /\ result' = Result("error", VoidV, result.exited)
    /\ pc' = "read"
    /\ UNCHANGED <<parserUnit, argOrder, suite, cin, global_env, cells, pairs, pending_defines,
                   replStx, replExpr, replIdx, eof, nread, neof>>

\* main.cpp 44: readSyntax never returns (readList loops for ever), so the
\* loop body goes no further.
ReadHangs ==
    /\ pc = "read"
    /\ cin # <<>>
    /\ readSyntax(cin).diverges
    /\ pc' = "hung"
    /\ UNCHANGED <<parserUnit, argOrder, suite, cin, global_env, cells, pairs, pending_defines,
                   out, replStx, replExpr, replIdx, eof, nread, neof, result>>

Next ==
    \/ ReadDefine
    \/ ReadExpr
    \/ ReadParseError
    \/ CreatePlaceholders
    \/ PendingDefine
    \/ PendingDefineThrows
    \/ EvalPrint
    \/ EvalTerminate
    \/ EvalThrows
    \/ Catch

Spec == Init /\ [][Next]_vars

-----------------------------------------------------------------------------
(* The driver: termination, failures, output lines, end of input.           *)

InitDriver == Init /\ suite = "driver"
SpecDriver == InitDriver /\ [][Next]_vars

\* Lines of output completed so far.
RECURSIVE Lines(_)
Lines(o) ==
    IF o = <<>> THEN 0
    ELSE Lines(Tail(o)) + (IF Head(o) \in {NewlineTok, RuntimeErrorTok} THEN 1 ELSE 0)

\* C2: once the processing of a top-level form has evaluated an (exit) call,
\* at whatever nesting position, the driver loop has ended: the step that
\* evaluated it prints no RuntimeError and no value and no later form is read.
C2_ExitAnywhereEndsLoop == result.exited => pc = "done"

\* C3: a past failure never makes a later form fail: the self-contained,
\* well-formed form 5 is never answered by the RuntimeError line; its own
\* value is printed.
C3_LaterFormsStillEvaluated ==
    (replStx = Lit5 /\ pc \in {"catch", "read"}) => result.kind = "value"

\* C7: every top-level define form produces exactly one (blank) output line:
\* right after a define has been read, the output holds one line for every
\* form read so far.
C7_DefinePrintsBlankLine ==
    result.kind = "define" =>
        /\ Lines(out) = nread + neof
        /\ out # <<>>
        /\ out[Len(out)] = NewlineTok

\* C8: once the input stream is exhausted the driver loop ends; no form is
\* evaluated or printed for a read made at end of file.
C8_EndOfInputEndsLoop == eof => pc = "done"

\* C9: after the driver's catch, no top-level definition is still pending
\* when the next form is read.
C9_CatchClearsPending ==
    (pc = "read" /\ result.kind = "error") => pending_defines = <<>>

-----------------------------------------------------------------------------
(* Batches of adjacent defines.                                             *)

InitBatch == Init /\ suite = "batch"
SpecBatch == InitBatch /\ [][Next]_vars

PendingNames == {pending_defines[i].first : i \in 1..Len(pending_defines)}

\* While right-hand sides are being evaluated every name of the run is bound.
AllPendingBound == pc = "defines" => \A x \in PendingNames : Bound(x, global_env)

\* The expression after the run is evaluated with nothing left pending.
FlushedBeforeExpr == pc = "eval" => pending_defines = <<>>

\* One turn of the second loop: the replIdx-th right-hand side is evaluated
\* in the shared environment and stored in its name's cell; the next turn
\* takes the next definition, and after the last the expression is evaluated.
InOrderStep ==
    (pc = "defines" /\ pc' # "catch") =>
        LET def == pending_defines[replIdx]
            r == Eval(def.second, global_env, Store(cells, pairs, out))
        IN /\ r.ok
           /\ find(def.first, global_env', cells') = r.v
           /\ IF replIdx < Len(pending_defines)
              THEN pc' = "defines" /\ replIdx' = replIdx + 1
                   /\ pending_defines' = pending_defines
              ELSE pc' = "eval"

\* Mutual recursion: at the driver and inside a begin, (ev 2) is #t.
\* A begin's batch binds each of its names to void before any right-hand
\* side: p, defined from the later q, is void.
BatchOutcomes ==
    /\ (replStx \in {CallEv2, BeginEvOd} /\ result.kind = "value") => result.v = BooleanV(TRUE)
    /\ (replStx = BeginPQ /\ result.kind = "value") => result.v = VoidV
    /\ pc = "read" =>
          LET r == Eval(parseSyntax(BeginEvOd, global_env), global_env,
                        Store(cells, pairs, out))
              s == Eval(parseSyntax(BeginPQ, global_env), global_env,
                        Store(cells, pairs, out))
          IN r.ok /\ r.v = BooleanV(TRUE) /\ s.ok /\ s.v = VoidV

\* The driver's first loop binds every name of the run to void.
PlaceholdersAllVoid ==
    pc = "placeholders" =>
        \A x \in PendingNames :
            Bound(x, global_env') /\ find(x, global_env', cells') = VoidV

\* The driver's first loop binds to void every name of the run that has no
\* binding yet, and leaves a name that is already bound with its value.
PlaceholdersFreshVoid ==
    pc = "placeholders" =>
        \A x \in PendingNames :
            /\ Bound(x, global_env')
            /\ find(x, global_env', cells') =
                  IF Bound(x, global_env) THEN find(x, global_env, cells) ELSE VoidV

C4_Common ==
    /\ []AllPendingBound
    /\ []FlushedBeforeExpr
    /\ []BatchOutcomes
    /\ [][InOrderStep]_vars

-----------------------------------------------------------------------------
(* Closures and set!.                                                       *)

InitClosure == Init /\ suite = "closure"
SpecClosure == InitClosure /\ [][Next]_vars

\* The value of name x in the global chain (void when it has none).
GlobalValue(x) == IF Bound(x, global_env) THEN find(x, global_env, cells) ELSE VoidV
IsProc(x) == GlobalValue(x).t = "V_PROC"
\* The cell a chain gives name x.
CellOf(x, env) == env[FirstFrame(x, env)].c
\* What calling form f next would give in the current state.
NextCall(f) == Eval(parseSyntax(f, global_env), global_env, Store(cells, pairs, out))

\* C5: a procedure keeps the chain its lambda was evaluated in and the cells are
\* shared: in every state the next call of getx gives the current value of x,
\* whether x was last written by a set! at top level or through the closure
\* setx; a call of counter gives the current value of the n it captured.
C5_ClosureSeesSet ==
    /\ (replStx = SetX2 /\ result.kind = "value") => GlobalValue("x") = IntegerV(2)
    /\ (replStx = CallSetX3 /\ result.kind = "value") => GlobalValue("x") = IntegerV(3)
    /\ (replStx = CallGetX /\ result.kind = "value") => result.v = GlobalValue("x")
    /\ (IsProc("getx") /\ IsProc("setx")) =>
          /\ CellOf("x", GlobalValue("getx").env) = CellOf("x", global_env)
          /\ CellOf("x", GlobalValue("setx").env) = CellOf("x", global_env)
    /\ (pc = "read" /\ IsProc("getx")) =>
          LET r == NextCall(CallGetX) IN r.ok /\ r.v = GlobalValue("x")
    /\ (replStx = CallCounter /\ result.kind = "value") =>
          /\ result.v = find("n", GlobalValue("counter").env, cells)
          /\ ~Bound("n", global_env)

\* x was set through the closure setx, and the call of getx after it gave 3.
C5_Witness ==
    /\ replStx = CallGetX
    /\ result.kind = "value"
    /\ result.v = IntegerV(3)
    /\ nread = 3

-----------------------------------------------------------------------------
(* Application of user lambdas; shadowed built-in names.                    *)

InitApply == Init /\ suite = "apply"
SpecApply == InitApply /\ [][Next]_vars

LambdaCalls == {ApplyPlus3, ApplyList3, ApplySquare}

\* The value of the body of the lambda called by form f, evaluated in the
\* current chain extended with the parameters bound to the arguments.
BodyValue(f) ==
    LET e == parseSyntax(f, global_env)
        args == EvalSeq(e.rand, 1, <<>>, global_env, Store(cells, pairs, out))
        x == ExtendWith(e.rator.x, args.vals, 1, global_env, args.st.cells)
    IN Eval(e.rator.e, x.env, [args.st EXCEPT !.cells = x.cells])

\* C6: applying a procedure made from a user lambda to as many arguments as
\* it has parameters gives the value of its body in the captured chain
\* extended with the parameters, whatever the shape of the body.
C6_ApplyGivesBodyValue ==
    (replStx \in LambdaCalls /\ pc = "read" /\ pending_defines = <<>>
        /\ result.kind \in {"value", "error"}) =>
        LET r == BodyValue(replStx)
        IN /\ r.ok
           /\ result.kind = "value"
           /\ Shown(result.v, pairs) = Shown(r.v, r.st.pairs)

ShadowForms == {LetCar, LambdaCar}
\* The body (car 1) as the form parsed it.
ShadowedBody(e) == IF e.ty = "Let" THEN e.body ELSE e.rator.e

\* C1: with car bound by an enclosing let or lambda parameter list, the
\* list (car 1) in the body is parsed as the application Apply(Var car, 1),
\* and evaluating the form calls the user's value: the result is 7.
C1_ShadowedHeadIsApplication ==
    /\ (replStx \in ShadowForms /\ pc \in {"placeholders", "defines", "eval"}) =>
          ShadowedBody(replExpr) = Apply(Var("car"), <<Fixnum(1)>>)
    /\ (replStx \in ShadowForms /\ pc = "read" /\ pending_defines = <<>>
          /\ result.kind \in {"value", "error"}) =>
          result.kind = "value" /\ result.v = IntegerV(7)

-----------------------------------------------------------------------------
(* Pairs.                                                                   *)

InitPairs == Init /\ suite = "pairs"
SpecPairs == InitPairs /\ [][Next]_vars

IsPair(x) == GlobalValue(x).t = "V_PAIR"
\* The Pair object name x holds.
PairOf(x) == GlobalValue(x).a

PairReads ==
    /\ (replStx = CarB /\ result.kind = "value") => result.v = pairs[PairOf("a")].car
    /\ (replStx = CdrA /\ result.kind = "value") => result.v = pairs[PairOf("b")].cdr
    /\ (replStx = CarCarC /\ result.kind = "value") => result.v = pairs[PairOf("a")].car
    /\ (IsPair("a") /\ IsPair("b") /\ IsPair("c")) =>
          PairOf("a") = PairOf("b") /\ pairs[PairOf("c")].car = GlobalValue("a")
    /\ (replStx = LetSetCar /\ result.kind = "value") => result.v = IntegerV(9)
    /\ pc = "read" => ~NextCall(SetCarOf5).ok

\* A set-car!/set-cdr! form that returns writes the one slot it addresses,
\* of the one pair, and gives void.
PairWrites ==
    (pc = "eval" /\ pc' = "read") =>
        /\ replStx = SetCarA9 =>
              /\ result'.v = VoidV
              /\ pairs' = [pairs EXCEPT ![PairOf("a")].car = IntegerV(9)]
        /\ replStx = SetCdrB8 =>
              /\ result'.v = VoidV
              /\ pairs' = [pairs EXCEPT ![PairOf("b")].cdr = IntegerV(8)]

\* C10: pairs are shared mutable objects: a component written by set-car! or
\* set-cdr! through one name is what car/cdr read through every other name
\* or containing structure of the same pair; set-car!/set-cdr! return void,
\* change only the addressed slot of that pair, and fail on a non-pair.
C10_PairsShared == []PairReads /\ [][PairWrites]_vars

\* a's car was set to 9 through a, and (car b) read 9 through the alias b.
C10_Witness ==
    /\ replStx = CarB
    /\ result.kind = "value"
    /\ result.v = IntegerV(9)
    /\ nread = 3

-----------------------------------------------------------------------------
(* letrec.                                                                  *)

InitLetrec == Init /\ suite = "letrec"
SpecLetrec == InitLetrec /\ [][Next]_vars

\* What each letrec form evaluates to when every name is bound before any
\* initializer is parsed or evaluated.
LetrecExpected(f) ==
    CASE f = LetrecEvOd -> BooleanV(TRUE)
      [] f = LetrecCar -> IntegerV(7)
      [] f = LetrecForward -> VoidV

\* C11: in a letrec every name is bound before any initializer is parsed or
\* evaluated: the initializer (lambda (y) (car y)) of f, with car bound by the
\* same letrec, holds the application Apply(Var car, y); mutual recursion
\* between the bindings, the call of the rebound car and the reference to a
\* later binding all give their value.
C11_LetrecBindsAllFirst ==
    /\ (replStx = LetrecCar /\ pc \in {"placeholders", "defines", "eval"}) =>
          replExpr.bind[1].second.e = Apply(Var("car"), <<Var("y")>>)
    /\ (replStx \in LetrecForms \ BaseForms /\ pc = "read" /\ pending_defines = <<>>
          /\ result.kind \in {"value", "error"}) =>
          result.kind = "value" /\ result.v = LetrecExpected(replStx)

-----------------------------------------------------------------------------
(* Truthiness.                                                              *)

InitTruth == Init /\ suite = "truth"
SpecTruth == InitTruth /\ [][Next]_vars

\* The elements of the list v, as show writes them.
RECURSIVE ListElems(_, _)
ListElems(v, ps) ==
    IF v.t # "V_PAIR" THEN <<>>
    ELSE <<Shown(ps[v.a].car, ps)>> \o ListElems(ps[v.a].cdr, ps)

\* The operand of a truth form and the value it evaluates to.
OperandOf(f) == f.stxs[2].stxs[2]
OperandShown(f) ==
    LET r == Eval(parseSyntax(OperandOf(f), global_env), global_env, Store(cells, pairs, out))
    IN Shown(r.v, r.st.pairs)

\* C12: if, cond, and, or and not use one truthiness: with the operand #f
\* the alternative of if is taken, the cond clause is passed over, and gives
\* #f, or goes on to its next operand and not gives #t; with any other operand
\* ('(), 0, 0/1, "", void, a symbol, a pair, a procedure) the consequent is
\* taken, the clause fires, and goes on, or stops with that value and not
\* gives #f.
C12_OneTruthiness ==
    (replStx \in TruthForms /\ pc = "read" /\ pending_defines = <<>>
        /\ result.kind \in {"value", "error"}) =>
        /\ result.kind = "value"
        /\ ListElems(result.v, pairs) =
              IF OperandOf(replStx) = FalseSyntax
              THEN <<IntegerV(2), IntegerV(2), BooleanV(FALSE), IntegerV(2), BooleanV(TRUE)>>
              ELSE <<IntegerV(1), IntegerV(1), IntegerV(1), OperandShown(replStx),
                     BooleanV(FALSE)>>

\* Every operand of the suite has been through the five forms.
C12_Witness ==
    /\ replStx \in {TruthForm(Number(0)), TruthForm(QuoteSx(List(<<>>))), TruthForm(FalseSyntax)}
    /\ pc = "read"
    /\ result.kind = "value"
    /\ Len(ListElems(result.v, pairs)) = 5

-----------------------------------------------------------------------------
(* Short-circuit evaluation of and / or.                                    *)

InitShortCircuit == Init /\ suite = "shortcircuit"
SpecShortCircuit == InitShortCircuit /\ [][Next]_vars

\* What evaluating a form of the suite must give: its value and what its
\* operands write, or a RuntimeError for the two forms whose failing operand
\* comes before the stopping point.
ShortCircuitValue(f) ==
    CASE f = AndStop -> BooleanV(FALSE)
      [] f = OrStop -> IntegerV(1)
      [] f = AndEmpty -> BooleanV(TRUE)
      [] f = OrEmpty -> BooleanV(FALSE)
      [] f = AndLast -> IntegerV(2)
      [] f = OrNone -> BooleanV(FALSE)
      [] f = AndEffects -> BooleanV(FALSE)
      [] f = OrEffects -> VoidV
ShortCircuitWrites(f) ==
    CASE f = AndEffects -> <<ShowTok(IntegerV(1), <<>>), ShowTok(IntegerV(2), <<>>)>>
      [] f = OrEffects -> <<ShowTok(IntegerV(1), <<>>)>>
      [] OTHER -> <<>>

\* C13: and evaluates its operands left to right and stops at the first #f,
\* giving #f, otherwise gives the value of the last operand (#t for none); or
\* stops at the first operand that is not #f and gives it (#f if none).  The
\* operands after the stopping point are not evaluated: they neither fail nor
\* write; an operand before it that fails makes the form fail.
C13_ShortCircuitStep ==
    (pc = "eval" /\ replStx \in ShortCircuitForms /\ pc' # "eval") =>
        IF replStx \in {AndReachesError, OrReachesError}
        THEN pc' = "catch" /\ out' = out
        ELSE /\ pc' = "read"
             /\ result'.kind = "value"
             /\ result'.v = ShortCircuitValue(replStx)
             /\ out' = out \o ShortCircuitWrites(replStx)
                           \o PrintValue(result'.v, replExpr, pairs')
C13_ShortCircuit == [][C13_ShortCircuitStep]_vars

\* (and (display 1) (display 2) #f (display 3)) has been evaluated.
C13_Witness ==
    /\ replStx = AndEffects
    /\ pc = "read"
    /\ result.kind = "value"
    /\ Len(out) >= 4

-----------------------------------------------------------------------------
(* Quoted lists that hold the symbol `.`.                                   *)

InitQuote == Init /\ suite = "quote"
SpecQuote == InitQuote /\ [][Next]_vars

\* The value show writes for the improper list (e1 ... en . tail).
RECURSIVE ImproperList(_, _)
ImproperList(elems, tail) ==
    IF elems = <<>> THEN tail
    ELSE [t |-> "V_PAIR", car |-> Head(elems), cdr |-> ImproperList(Tail(elems), tail)]

\* C14: a quoted list with one `.` in the penultimate position evaluates to
\* the dotted list; with the `.` last, with more than one element after it,
\* or with more than one `.`, evaluation fails with a RuntimeError and gives
\* no value.
C14_MisplacedDotFails ==
    (pc = "read" /\ pending_defines = <<>> /\ result.kind \in {"value", "error"}) =>
        /\ replStx = QuoteDotted =>
              /\ result.kind = "value"
              /\ Shown(result.v, pairs) = ImproperList(<<IntegerV(1)>>, IntegerV(2))
        /\ replStx = QuoteDotted3 =>
              /\ result.kind = "value"
              /\ Shown(result.v, pairs)
                    = ImproperList(<<IntegerV(1), IntegerV(2)>>, IntegerV(3))
        /\ replStx \in MisplacedDot => result.kind = "error"

-----------------------------------------------------------------------------
(* Operand counts of built-ins.                                             *)

InitArity == Init /\ suite = "arity"
SpecArity == InitArity /\ [][Next]_vars

\* C15: a call of an unshadowed built-in with an illegal number of operands
\* fails while the form is parsed: reading the form leads straight to the
\* handler with the environment, the store and the output as they were (no
\* operand was evaluated, no pending define flushed), and the handler writes
\* one RuntimeError line.
C15_ArityStep ==
    /\ (pc = "read" /\ nread' = nread + 1 /\ replStx' \in BadArityForms \cup {CarNoArgs}) =>
          /\ pc' = "catch"
          /\ UNCHANGED <<global_env, cells, pairs, out, pending_defines>>
    /\ (pc = "catch" /\ replStx \in BadArityForms \cup {CarNoArgs}) =>
          /\ pc' = "read"
          /\ out' = Append(out, RuntimeErrorTok)
          /\ UNCHANGED <<global_env, cells, pairs>>
C15_ArityFailsAtParse == [][C15_ArityStep]_vars

\* (cons (display 1)) has been read and has failed, after a form that wrote.
C15_Witness ==
    /\ replStx = Call1("cons", DisplaySx(1))
    /\ pc = "read"
    /\ result.kind = "error"
    /\ Len(out) >= 3
    /\ out[Len(out)] = RuntimeErrorTok
    /\ out[Len(out) - 1] = NewlineTok

-----------------------------------------------------------------------------
(* The terminate value and the store.                                       *)

\* C16: the terminate value is never the car or the cdr of a pair and never
\* the value of an environment cell.
C16_TerminateNeverStored ==
    /\ \A i \in 1..Len(pairs) :
          pairs[i].car.t # "V_TERMINATE" /\ pairs[i].cdr.t # "V_TERMINATE"
    /\ \A i \in 1..Len(cells) : cells[i].t # "V_TERMINATE"

-----------------------------------------------------------------------------
(* Rational values.                                                         *)

InitRational == Init /\ suite = "rational"
SpecRational == InitRational /\ [][Next]_vars

PositiveDenominator(v) == v.t = "V_RATIONAL" => v.denominator > 0

-----------------------------------------------------------------------------
(* expt.                                                                    *)

ExptBases ==
    {-2147483647, -65536, -46341, -46340, -3, -2, -1, 0, 1, 2, 3, 10, 46340, 46341, 65536,
     2147483647}
ExptExponents == {-1, 0, 1, 2, 3, 4, 5, 19, 20, 21, 30, 31, 32, 33, 62, 63, 64}
\* An integer-valued operand: the integer n or the rational n/1.
IntegerValued(n) == {Number(n), RationalSyntax(n, 1)}
ExptCalls ==
    {Call2("expt", b, e) : b \in UNION {IntegerValued(n) : n \in ExptBases},
                           e \in UNION {IntegerValued(n) : n \in ExptExponents}}

\* The driver has read its first form, a call of expt on integer-valued
\* operands; the forms that follow are those every suite holds.
InitExpt ==
    /\ parserUnit \in ParserUnits
    /\ argOrder \in ArgOrders
    /\ suite = "expt"
    /\ global_env = empty
    /\ cells = <<>>
    /\ pairs = <<>>
    /\ pending_defines = <<>>
    /\ out = <<>>
    /\ pc = "eval"
    /\ replStx \in ExptCalls
    /\ replExpr = parseSyntax(replStx, empty)
    /\ replIdx = 0
    /\ eof = FALSE
    /\ nread = 1
    /\ neof = 0
    /\ cin = <<>>
    /\ result = Result("pending", VoidV, FALSE)
SpecExpt == InitExpt /\ [][Next]_vars

\* The integer an integer-valued operand denotes.
OperandInt(stx) == IF stx.k = "Number" THEN stx.n ELSE stx.numerator

\* b^e by e multiplications, from the power acc reached so far, as long as
\* it stays in the int range: once a power of b has left the range the higher
\* powers are outside it too (only a b with |b| >= 2 leaves it).
RECURSIVE PowerFrom(_, _, _)
PowerFrom(acc, b, e) ==
    IF e = 0 THEN [inRange |-> TRUE, n |-> acc]
    ELSE IF ~MulFits(acc, b) THEN [inRange |-> FALSE, n |-> 0]
    ELSE PowerFrom(acc * b, b, e - 1)
Power(b, e) == PowerFrom(1, b, e)

\* C18: for integer-valued b and e, (expt b e) fails when e < 0 or when
\* b = 0 and e = 0; otherwise it gives exactly b^e when b^e is in
\* [INT_MIN, INT_MAX] and fails when it is not.
C18_ExptExactOrFails ==
    (replStx \in ExptCalls /\ nread = 1 /\ pc = "read") =>
        LET b == OperandInt(replStx.stxs[2])
            e == OperandInt(replStx.stxs[3])
        IN IF e < 0 \/ (b = 0 /\ e = 0) THEN result.kind = "error"
           ELSE IF Power(b, e).inRange
           THEN result.kind = "value" /\ result.v = IntegerV(Power(b, e).n)
           ELSE result.kind = "error"

\* (expt -2 31) has given INT_MIN.
C18_Witness ==
    /\ replStx = Call2("expt", Number(-2), Number(31))
    /\ pc = "read"
    /\ result.kind = "value"
    /\ result.v = IntegerV(INT_MIN)

-----------------------------------------------------------------------------
(* Built-ins used as values.                                                *)

\* A built-in and the operands it is applied to.
PrimitiveUses ==
    {<<"and">>, <<"and", Number(1), Number(2)>>, <<"and", FalseSyntax, Number(1)>>,
     <<"or">>, <<"or", FalseSyntax, Number(2)>>, <<"or", Number(1), Number(2)>>,
     <<"+">>, <<"+", Number(1)>>, <<"+", Number(1), Number(2)>>,
     <<"+", Number(1), Number(2), Number(3)>>,
     <<"-">>, <<"-", Number(5)>>, <<"-", Number(5), Number(1)>>,
     <<"-", Number(5), Number(1), Number(1)>>,
     <<"*">>, <<"*", Number(2), Number(3)>>, <<"*", Number(2), FalseSyntax>>,
     <<"/">>, <<"/", Number(2)>>, <<"/", Number(4), Number(2)>>, <<"/", Number(4), Number(0)>>,
     <<"<">>, <<"<", Number(1)>>,
     <<"<", Number(1), Number(2)>>, <<"<", Number(1), Number(2), Number(3)>>,
     <<"<=", Number(2), Number(1)>>, <<"=", Number(1), Number(1)>>,
     <<">=", Number(1), Number(2), Number(3)>>, <<">", Number(2), Number(1)>>,
     <<"list">>, <<"list", Number(1), Number(2)>>,
     <<"car", QuoteSx(List(<<Number(1), Number(2)>>))>>, <<"car">>, <<"car", Number(1)>>,
     <<"cdr", QuoteSx(List(<<Number(1), Number(2)>>))>>,
     <<"cons", Number(1), Number(2)>>, <<"cons", Number(1)>>,
     <<"not", FalseSyntax>>, <<"not", Number(0)>>,
     <<"null?", QuoteSx(List(<<>>))>>, <<"pair?", Number(1)>>, <<"number?", Number(1)>>,
     <<"expt", Number(2), Number(3)>>, <<"display", Number(1)>>,
     <<"void">>, <<"void", Number(1)>>, <<"exit">>}

\* (P v1 ... vn) and ((lambda (f) (f v1 ... vn)) P)
DirectCall(u) == List(<<Sx(u[1])>> \o Tail(u))
ViaValue(u) == List(<<LambdaSx(<<Sx("f")>>, List(<<Sx("f")>> \o Tail(u))), Sx(u[1])>>)
ViaValueCalls == {ViaValue(u) : u \in PrimitiveUses}
UseOf(f) == CHOOSE u \in PrimitiveUses : ViaValue(u) = f

\* The driver has read its first form, a built-in passed as a value and
\* applied; the forms that follow are those every suite holds.
InitPrimitive ==
    /\ parserUnit \in ParserUnits
    /\ argOrder \in ArgOrders
    /\ suite = "primitive"
    /\ global_env = empty
    /\ cells = <<>>
    /\ pairs = <<>>
    /\ pending_defines = <<>>
    /\ out = <<>>
    /\ pc = "eval"
    /\ replStx \in ViaValueCalls
    /\ replExpr = parseSyntax(replStx, empty)
    /\ replIdx = 0
    /\ eof = FALSE
    /\ nread = 1
    /\ neof = 0
    /\ cin = <<>>
    /\ result = Result("pending", VoidV, FALSE)
SpecPrimitive == InitPrimitive /\ [][Next]_vars

\* What the direct call gives as the first form of a session: a value (as
\* show writes it), the terminate value, or a failure.
DirectOutcome(u) ==
    LET e == parseSyntax(DirectCall(u), empty)
        r == Eval(e, empty, Store(<<>>, <<>>, <<>>))
    IN IF Failed(e) THEN [kind |-> "error", v |-> VoidV]
       ELSE IF ~r.ok THEN [kind |-> "error", v |-> VoidV]
       ELSE IF r.v.t = "V_TERMINATE" THEN [kind |-> "terminate", v |-> VoidV]
       ELSE [kind |-> "value", v |-> Shown(r.v, r.st.pairs)]

\* C19: a built-in used as a value and applied to v1 ... vn gives what the
\* direct call (P v1 ... vn) gives, value or failure, for any number of
\* operands.
C19_ValueUseEqualsDirectCall ==
    (replStx \in ViaValueCalls /\ nread = 1 /\ pc \in {"read", "done"}) =>
        LET d == DirectOutcome(UseOf(replStx))
        IN /\ result.kind = d.kind
           /\ result.kind = "value" => Shown(result.v, pairs) = d.v

-----------------------------------------------------------------------------
(* The reader: brackets and parentheses.                                    *)

\* Texts whose lists are opened and closed with matching delimiters:
\* (+ 1 2)  [+ 1 2]  (+ (* 2 3) 1)  (+ [* 2 3] 1)  [+ (* 2 3) 1]  [+ [* 2 3] 1]
\* (list)  [list]  (+ 1 2) 5  [+ 1 2] 5  (/ 1 0)  [/ 1 0]
ReaderTexts ==
    {<<"(", "+", " ", "1", " ", "2", ")">>,
     <<"[", "+", " ", "1", " ", "2", "]">>,
     <<"(", "+", " ", "(", "*", " ", "2", " ", "3", ")", " ", "1", ")">>,
     <<"(", "+", " ", "[", "*", " ", "2", " ", "3", "]", " ", "1", ")">>,
     <<"[", "+", " ", "(", "*", " ", "2", " ", "3", ")", " ", "1", "]">>,
     <<"[", "+", " ", "[", "*", " ", "2", " ", "3", "]", " ", "1", "]">>,
     <<"(", "l", "i", "s", "t", ")">>,
     <<"[", "l", "i", "s", "t", "]">>,
     <<"(", "+", " ", "1", " ", "2", ")", " ", "5">>,
     <<"[", "+", " ", "1", " ", "2", "]", " ", "5">>,
     <<"(", "/", " ", "1", " ", "0", ")">>,
     <<"[", "/", " ", "1", " ", "0", "]">>}

\* The same text written with parentheses.
Parenthesized(s) ==
    [i \in 1..Len(s) |-> IF s[i] = "[" THEN "(" ELSE IF s[i] = "]" THEN ")" ELSE s[i]]

\* The stream holds one of the texts; the forms that follow it are those
\* every suite holds.
InitReader ==
    /\ parserUnit \in ParserUnits
    /\ argOrder \in ArgOrders
    /\ suite = "reader"
    /\ global_env = empty
    /\ cells = <<>>
    /\ pairs = <<>>
    /\ pending_defines = <<>>
    /\ out = <<>>
    /\ pc = "read"
    /\ replStx = NoStx
    /\ replExpr = NoExpr
    /\ replIdx = 0
    /\ eof = FALSE
    /\ nread = 0
    /\ neof = 0
    /\ cin \in ReaderTexts
    /\ result = Result("none", VoidV, FALSE)
NextReader == Next \/ ReadHangs
SpecReader == InitReader /\ [][NextReader]_vars

\* C20: a list opened with `[` or `(` is closed by the matching `]` or `)`:
\* reading it returns, leaves on the stream what follows the closing
\* delimiter, and gives the Syntax that the same text written with
\* parentheses gives.
C20_ReadStep ==
    (pc = "read" /\ cin \in ReaderTexts) =>
        LET paren == readSyntax(Parenthesized(cin))
        IN /\ pc' # "hung"
           /\ replStx' = paren.stx
           /\ cin' = SubSeq(cin, paren.i, Len(cin))
C20_BracketsReadAsParentheses == [][C20_ReadStep]_vars

-----------------------------------------------------------------------------
(* eq?.                                                                     *)

\* Operands of eq?: the expression, what kind of value it makes and, for a
\* number, its numerator and denominator the way the value holds them; for
\* a boolean and a symbol, the payload or the name.
EqNumber(stx, n, d) == [stx |-> stx, kind |-> "number", val |-> <<n, d>>, name |-> ""]
EqOperand(stx, kind, name) == [stx |-> stx, kind |-> kind, val |-> <<0, 1>>, name |-> name]
EqInteger(n) == EqNumber(Number(n), n, 1)
EqRational(n, d) == EqNumber(RationalSyntax(n, d), n, d)
EqOperands ==
    {EqInteger(0), EqInteger(1), EqInteger(2), EqInteger(-1), EqInteger(65536),
     EqRational(1, 2), EqRational(2, 4), EqRational(-1, 2), EqRational(2, 1), EqRational(4, 2),
     EqRational(0, 65536), EqRational(1, 65536), EqRational(65536, 65536),
     EqNumber(Call2("/", Number(1), Number(-2)), 1, -2),                  \* (/ 1 -2)
     EqOperand(TrueSyntax, "boolean", "#t"), EqOperand(FalseSyntax, "boolean", "#f"),
     EqOperand(Call1("not", Number(1)), "boolean", "#f"),                 \* (not 1)
     EqOperand(QuoteSx(Sx("a")), "symbol", "a"), EqOperand(QuoteSx(Sx("b")), "symbol", "b"),
     EqOperand(QuoteSx(List(<<>>)), "null", ""),                         \* '()
     EqOperand(List(<<Sx("list")>>), "null", ""),                        \* (list)
     EqOperand(List(<<Sx("void")>>), "void", ""),                        \* (void)
     EqOperand(StringSyntax("a"), "object", ""),                         \* "a"
     EqOperand(QuoteSx(List(<<Number(1), Number(2)>>)), "object", ""),   \* '(1 2)
     EqOperand(Call2("cons", Number(1), Number(2)), "object", ""),       \* (cons 1 2)
     EqOperand(LambdaSx(<<Sx("x")>>, Sx("x")), "object", ""),            \* (lambda (x) x)
     EqOperand(Sx("car"), "object", "")}                                 \* car

\* (eq? a b): the two operands are made independently of each other.
EqDirect(a, b) == Call2("eq?", a.stx, b.stx)
\* ((lambda (p) (eq? p p)) a)
EqAlias(a) == List(<<LambdaSx(<<Sx("p")>>, Call2("eq?", Sx("p"), Sx("p"))), a.stx>>)
\* ((lambda (p) ((lambda (q) (eq? p q)) p)) a)
EqAlias2(a) ==
    List(<<LambdaSx(<<Sx("p")>>,
                    List(<<LambdaSx(<<Sx("q")>>, Call2("eq?", Sx("p"), Sx("q"))), Sx("p")>>)),
           a.stx>>)
\* ((lambda (p) (eq? (car (cons p 1)) p)) a)
EqAliasInPair(a) ==
    List(<<LambdaSx(<<Sx("p")>>,
                    Call2("eq?", Call1("car", Call2("cons", Sx("p"), Number(1))), Sx("p"))),
           a.stx>>)
EqCases ==
    {[form |-> EqDirect(a, b), a |-> a, b |-> b, alias |-> FALSE] : a, b \in EqOperands}
    \cup UNION {{[form |-> f, a |-> a, b |-> a, alias |-> TRUE] :
                     f \in {EqAlias(a), EqAlias2(a), EqAliasInPair(a)}} : a \in EqOperands}
EqCalls == {c.form : c \in EqCases}
EqCaseOf(f) == CHOOSE c \in EqCases : c.form = f

\* The driver has read its first form, a use of eq?; the forms that follow
\* are those every suite holds.
InitEq ==
    /\ parserUnit \in ParserUnits
    /\ argOrder \in ArgOrders
    /\ suite = "eq"
    /\ global_env = empty
    /\ cells = <<>>
    /\ pairs = <<>>
    /\ pending_defines = <<>>
    /\ out = <<>>
    /\ pc = "eval"
    /\ replStx \in EqCalls
    /\ replExpr = parseSyntax(replStx, empty)
    /\ replIdx = 0
    /\ eof = FALSE
    /\ nread = 1
    /\ neof = 0
    /\ cin = <<>>
    /\ result = Result("pending", VoidV, FALSE)
SpecEq == InitEq /\ [][Next]_vars

RECURSIVE Gcd(_, _)
Gcd(x, y) == IF y = 0 THEN x ELSE Gcd(y, x % y)
Abs(x) == IF x < 0 THEN -x ELSE x
\* n/d in lowest terms with a positive denominator.
Lowest(r) ==
    LET g == Gcd(Abs(r[1]), Abs(r[2]))
        sg == IF r[2] < 0 THEN -1 ELSE 1
    IN <<sg * (r[1] \div g), sg * (r[2] \div g)>>

\* What eq? is to answer for a case.
EqAnswer(c) ==
    IF c.a.kind = "number" /\ c.b.kind = "number" THEN Lowest(c.a.val) = Lowest(c.b.val)
    ELSE IF c.a.kind = c.b.kind /\ c.a.kind \in {"boolean", "symbol"} THEN c.a.name = c.b.name
    ELSE IF c.a.kind = c.b.kind /\ c.a.kind \in {"null", "void"} THEN TRUE
    ELSE c.alias

\* The cross-products of two numbers are in the int range.
CrossProductsFit(c) ==
    (c.a.kind = "number" /\ c.b.kind = "number") =>
        MulFits(c.a.val[1], c.b.val[2]) /\ MulFits(c.b.val[1], c.a.val[2])

EqAnswered(c) == result.kind = "value" /\ result.v = BooleanV(EqAnswer(c))

\* C21 (as stated): eq? is #t for two numbers exactly when they are
\* numerically equal, for two booleans or two symbols exactly when payloads
\* or names are equal, for null/null and void/void, and otherwise exactly
\* when both operands are the same object.
C21_EqAsStated ==
    (replStx \in EqCalls /\ nread = 1 /\ pc = "read") => EqAnswered(EqCaseOf(replStx))

\* C21 (amended): the same, for numbers only when the cross-products of
\* their numerators and denominators are in the int range.
C21_EqWithinIntRange ==
    (replStx \in EqCalls /\ nread = 1 /\ pc = "read" /\ CrossProductsFit(EqCaseOf(replStx))) =>
        EqAnswered(EqCaseOf(replStx))

\* Two independently quoted '(1 2) have been compared, and are not eq?.
C21_Witness ==
    /\ replStx = Call2("eq?", QuoteSx(List(<<Number(1), Number(2)>>)),
                              QuoteSx(List(<<Number(1), Number(2)>>)))
    /\ nread = 1
    /\ pc = "read"
    /\ result.kind = "value"
    /\ result.v = BooleanV(FALSE)

-----------------------------------------------------------------------------
(* Top-level definitions of built-in names.                                 *)

InitRedefine == Init /\ suite = "redefine"
SpecRedefine == InitRedefine /\ [][Next]_vars

\* The name a call form calls, and what the user's definition of it in the
\* suite gives for the call.
CalledName(f) == f.stxs[1].s
UserAnswer(f) ==
    CASE f = CallCar5 -> IntegerV(5)
      [] f = CallPlus12 -> IntegerV(0)
      [] f = CallIf123 -> IntegerV(7)

\* C22: the form (B args...) that follows a top-level define of B, a name
\* of a built-in or of a special form, is parsed as an application of the
\* variable B, and evaluating it calls the user's value, although the define
\* is evaluated only when that form is processed.
C22_Step ==
    /\ (pc = "read" /\ nread' = nread + 1 /\ replStx' \in RedefinedCalls
          /\ \E i \in 1..Len(pending_defines) : pending_defines[i].first = CalledName(replStx')) =>
          /\ pc' = "placeholders"
          /\ replExpr'.ty = "Apply"
          /\ replExpr'.rator = Var(CalledName(replStx'))
    /\ (pc = "eval" /\ replStx \in RedefinedCalls /\ Bound(CalledName(replStx), global_env)
          /\ find(CalledName(replStx), global_env, cells).t = "V_PROC") =>
          /\ pc' = "read"
          /\ result'.kind = "value"
          /\ result'.v = UserAnswer(replStx)
C22_DefinedBuiltinNameIsCalled == [][C22_Step]_vars

-----------------------------------------------------------------------------
(* Argument counts.                                                         *)

\* C23: applying a procedure made from a user lambda of k parameters to
\* n # k arguments fails with a runtime error, whatever the body is, and the
\* body is not evaluated: nothing is written, no cell and no pair is made.
C23_Step ==
    (pc = "eval" /\ replStx \in MismatchCalls) =>
        /\ pc' = "catch"
        /\ UNCHANGED <<out, cells, pairs, global_env>>
C23_WrongArgumentCountFails == [][C23_Step]_vars

-----------------------------------------------------------------------------
(* Parameter lists.                                                         *)

InitParams == Init /\ suite = "params"
SpecParams == InitParams /\ [][Next]_vars

Distinct(names) == \A i, j \in 1..Len(names) : names[i] = names[j] => i = j

\* The Lambda nodes at the places where the forms of the suite put them.
LambdaNodes(e) ==
    IF e.ty = "Lambda" THEN {e}
    ELSE IF e.ty = "Apply" /\ e.rator.ty = "Lambda" THEN {e.rator}
    ELSE {}

\* C24: a lambda, or a define in function form, whose parameter list holds
\* something that is not a symbol, or the same symbol twice, fails when it is
\* parsed; every Lambda node the parser makes has pairwise distinct
\* parameter names.
C24_Step ==
    /\ (pc = "read" /\ nread' = nread + 1
          /\ replStx' \in RepeatedParamForms \cup NonSymbolParamForms) => pc' = "catch"
    /\ \A l \in LambdaNodes(replExpr') : Distinct(l.x)
    /\ \A i \in 1..Len(pending_defines') :
          \A l \in LambdaNodes(pending_defines'[i].second) : Distinct(l.x)
C24_ParametersAreDistinctSymbols == [][C24_Step]_vars

-----------------------------------------------------------------------------
(* cond.                                                                    *)

MaxClauses == 3    \* clauses of a cond

\* A clause: headed by else with no body or two, a test that is #f with one
\* body, a test that is not #f with no body or two.
ClauseKinds == {"else0", "else2", "false1", "true0", "true2"}
IsElse(k) == k \in {"else0", "else2"}
Fires(k) == k # "false1"
NBody(k) == CASE k \in {"else0", "true0"} -> 0 [] k = "false1" -> 1 [] OTHER -> 2

\* Clause i of a cond: its test (begin (display i) t), t being #f or 10i, and
\* its j-th body (begin (display 10i+j) 100i+j), so that the output tells what
\* was evaluated, how often and in what order.
CondTestSx(i, k) ==
    IF IsElse(k) THEN Sx("else")
    ELSE List(<<Sx("begin"), DisplaySx(i), IF k = "false1" THEN FalseSyntax ELSE Number(10 * i)>>)
CondBodySx(i, j) == List(<<Sx("begin"), DisplaySx(10 * i + j), Number(100 * i + j)>>)
CondClauseSx(i, k) == List(<<CondTestSx(i, k)>> \o [j \in 1..NBody(k) |-> CondBodySx(i, j)])
CondSx(ds) == List(<<Sx("cond")>> \o [i \in 1..Len(ds) |-> CondClauseSx(i, ds[i])])
CondShapes == UNION {[1..n -> ClauseKinds] : n \in 1..MaxClauses}
CondCalls == {CondSx(ds) : ds \in CondShapes}
CondShapeOf(stx) == CHOOSE ds \in CondShapes : CondSx(ds) = stx

\* The driver has read its first form, a cond.
InitCond ==
    /\ parserUnit \in ParserUnits
    /\ argOrder \in ArgOrders
    /\ suite = "cond"
    /\ global_env = empty
    /\ cells = <<>>
    /\ pairs = <<>>
    /\ pending_defines = <<>>
    /\ out = <<>>
    /\ pc = "eval"
    /\ replStx \in CondCalls
    /\ replExpr = parseSyntax(replStx, empty)
    /\ replIdx = 0
    /\ eof = FALSE
    /\ nread = 1
    /\ neof = 0
    /\ cin = <<>>
    /\ result = Result("pending", VoidV, FALSE)
SpecCond == InitCond /\ [][Next]_vars

\* The clause that fires: the first headed by else or with a test that is
\* not #f; 0 when there is none.
Fired(ds) ==
    IF \E i \in 1..Len(ds) : Fires(ds[i])
    THEN CHOOSE i \in 1..Len(ds) : Fires(ds[i]) /\ \A j \in 1..(i - 1) : ~Fires(ds[j])
    ELSE 0
Displayed(n) == ShowTok(IntegerV(n), <<>>)
\* The tests of clauses i..n, each once and in order.
RECURSIVE TestsDisplayed(_, _, _)
TestsDisplayed(ds, i, n) ==
    IF i > n THEN <<>>
    ELSE (IF IsElse(ds[i]) THEN <<>> ELSE <<Displayed(i)>>) \o TestsDisplayed(ds, i + 1, n)
CondOutput(ds) ==
    LET f == Fired(ds) IN
    IF f = 0 THEN TestsDisplayed(ds, 1, Len(ds))
    ELSE TestsDisplayed(ds, 1, f) \o [j \in 1..NBody(ds[f]) |-> Displayed(10 * f + j)]
CondValue(ds) ==
    LET f == Fired(ds) IN
    IF f = 0 THEN VoidV
    ELSE IF NBody(ds[f]) > 0 THEN IntegerV(100 * f + NBody(ds[f]))
    ELSE IF IsElse(ds[f]) THEN VoidV
    ELSE IntegerV(10 * f)

\* C25: cond scans its clauses in order and fires the first that is headed
\* by else or whose test is not #f; the tests up to that clause are evaluated
\* once each, those after it never; the value is that of the last body, of
\* the test for a clause of a test alone, void for an else alone, and void
\* when no clause fires.
C25_CondFiresFirstClause ==
    (replStx \in CondCalls /\ nread = 1 /\ pc = "read") =>
        LET ds == CondShapeOf(replStx) IN
        /\ result.kind = "value"
        /\ result.v = CondValue(ds)
        /\ out = CondOutput(ds) \o PrintValue(result.v, parseSyntax(replStx, empty), <<>>)

\* (cond (#f-test body) (test-only) (else body body)) has given the value
\* of its second test, after one evaluation of each of its two first tests.
C25_Witness ==
    /\ replStx = CondSx(<<"false1", "true0", "else2">>)
    /\ nread = 1
    /\ pc = "read"
    /\ result.v = IntegerV(20)
    /\ Len(out) = 4

-----------------------------------------------------------------------------
(* set!.                                                                    *)

InitSet == Init /\ suite = "set"
SpecSet == InitSet /\ [][Next]_vars

\* The name a top-level (set! name e) of the suite writes, the value of its
\* e and what evaluating e displays.
SetName(f) == f.stxs[2].s
SetValue(f) == IF f = SetX2 THEN IntegerV(2) ELSE VoidV
SetDisplays(f) == IF f = SetX2 THEN <<>> ELSE <<ShowTok(IntegerV(7), <<>>)>>

\* C26: (set! x e) on a name with no binding in the chain fails without
\* evaluating e and without making a binding; on a bound x it evaluates e,
\* writes the first cell named x only, every other cell (a shadowed outer x
\* included) keeping its value, and gives void.
C26_Step ==
    /\ (pc = "eval" /\ replStx \in SetCalls /\ ~Bound(SetName(replStx), global_env)) =>
          /\ pc' = "catch"
          /\ UNCHANGED <<global_env, cells, pairs, out>>
    /\ (pc = "eval" /\ replStx \in SetCalls /\ Bound(SetName(replStx), global_env)) =>
          /\ pc' = "read"
          /\ result'.kind = "value"
          /\ result'.v = VoidV
          /\ global_env' = global_env
          /\ cells' = [cells EXCEPT
                          ![global_env[FirstFrame(SetName(replStx), global_env)].c] =
                              SetValue(replStx)]
          /\ out' = out \o SetDisplays(replStx) \o <<NewlineTok>>
    /\ (pc = "eval" /\ replStx = ShadowSetX) =>
          /\ pc' = "read"
          /\ result'.v = IntegerV(2)
          /\ global_env' = global_env
          /\ Len(cells') = Len(cells) + 1
          /\ cells'[Len(cells')] = IntegerV(2)
          /\ \A i \in 1..Len(cells) : cells'[i] = cells[i]
C26_SetWritesFirstCell == [][C26_Step]_vars

\* The lambda's own x has been set while the top-level x is bound: the
\* top-level x still holds 1.
C26_Witness ==
    /\ replStx = ShadowSetX
    /\ pc = "read"
    /\ result.kind = "value"
    /\ result.v = IntegerV(2)
    /\ Bound("x", global_env)
    /\ find("x", global_env, cells) = IntegerV(1)

-----------------------------------------------------------------------------
(* The parser's placeholders.                                               *)

InitPlaceholders == Init /\ suite = "placeholders"
SpecPlaceholders == InitPlaceholders /\ [][Next]_vars

\* C27: parsing leaves the environment it is given as it was, whether the
\* parse succeeds or fails: the same frames and the same cell values; so no
\* placeholder made for lambda, define, let or letrec is seen by a later
\* lookup (q stays unbound) or by a later parse ((car 1) stays the built-in).
C27_Step ==
    /\ (pc = "read" /\ nread' = nread + 1) => UNCHANGED <<global_env, cells>>
    /\ (pc = "eval" /\ replStx = RefQ) => pc' = "catch"
    /\ (pc = "read" /\ nread' = nread + 1 /\ replStx' = CarOf1) =>
          replExpr' = Unary("Car", Fixnum(1))
C27_ParsingLeavesEnvironment == [][C27_Step]_vars

\* After a lambda binding a parameter was read and printed, q was read and
\* found unbound.
C27_Witness ==
    /\ replStx = RefQ
    /\ pc = "catch"
    /\ nread = 2
    /\ out = <<ShowTok(ProcedureV(<<"q">>, Var("q"), empty, 0), <<>>), NewlineTok>>

-----------------------------------------------------------------------------
(* Failures and the global environment.                                     *)

\* C28: when the processing of a top-level form ends in a failure, no binding
\* made during that processing remains in the global environment: the names
\* bound after the driver's catch are those bound before the form.  The only
\* define of y, (define y (car 1)), fails whenever it is evaluated, so y is
\* bound only within a processing that fails, and is unbound at every read.
C28_FailedFormLeavesNoBinding == (pc = "read") => ~Bound("y", global_env)

-----------------------------------------------------------------------------
(* What a top-level procedure sees of later definitions.                    *)

\* The driver has read the defines of x, getx and getzz, which are pending,
\* and then a form that is not a define.
InitVisibility ==
    /\ parserUnit \in ParserUnits
    /\ argOrder \in ArgOrders
    /\ suite = "visibility"
    /\ global_env = empty
    /\ cells = <<>>
    /\ pairs = <<>>
    /\ pending_defines =
          [i \in 1..Len(FirstBatch) |->
              [first |-> parseSyntax(FirstBatch[i], empty).var,
               second |-> parseSyntax(FirstBatch[i], empty).e]]
    /\ out = <<>>
    /\ replStx \in Separators
    /\ \E e \in {parseSyntax(replStx, empty)} :
          /\ replExpr = IF Failed(e) THEN NoExpr ELSE e
          /\ pc = IF Failed(e) THEN "catch" ELSE "placeholders"
    /\ replIdx = 0
    /\ eof = FALSE
    /\ nread = Len(FirstBatch) + 1
    /\ neof = 0
    /\ cin = <<>>
    /\ result = Result("pending", VoidV, FALSE)
SpecVisibility == InitVisibility /\ [][Next]_vars

\* C29: a top-level procedure holds the chain as it was when the procedure
\* was made.  zz, first defined in a batch that a form other than a define
\* separates from the batch of getzz, is not visible in getzz: (getzz) fails;
\* x, bound when getx was made and defined again later, is one cell: (getx)
\* gives the value x has at the call.
C29_Step ==
    /\ (pc = "eval" /\ replStx = CallGetZZ) => pc' = "catch"
    /\ (pc = "eval" /\ replStx = CallGetX /\ Bound("getx", global_env)
          /\ find("getx", global_env, cells).t = "V_PROC") =>
          /\ pc' = "read"
          /\ result'.kind = "value"
          /\ result'.v = find("x", global_env, cells)
C29_LaterNameNotVisible == [][C29_Step]_vars

-----------------------------------------------------------------------------
(* How often a top-level define is evaluated.                               *)

\* The driver has read (define d (display 7)), once; no later form is that
\* define.
InitOnce ==
    /\ parserUnit \in ParserUnits
    /\ argOrder \in ArgOrders
    /\ suite = "once"
    /\ global_env = empty
    /\ cells = <<>>
    /\ pairs = <<>>
    /\ pending_defines =
          <<[first |-> parseSyntax(DefineDisplay, empty).var,
             second |-> parseSyntax(DefineDisplay, empty).e]>>
    /\ out = <<>>
    /\ pc = "read"
    /\ replStx = DefineDisplay
    /\ replExpr = NoExpr
    /\ replIdx = 0
    /\ eof = FALSE
    /\ nread = 1
    /\ neof = 0
    /\ cin = <<>>
    /\ result = Result("define", VoidV, FALSE)
SpecOnce == InitOnce /\ [][Next]_vars

\* How many times the initializer of d has been evaluated: each evaluation
\* displays 7, and nothing else does.
Evaluations == Cardinality({i \in 1..Len(out) : out[i] = Displayed(7)})

\* C30: the initializer of a top-level define is evaluated at most once, and
\* only when a form of the input that is not a define has been read after it
\* and parsed; a define that no such form follows is never evaluated.
C30_DefineEvaluatedOnce ==
    /\ Evaluations <= 1
    /\ Evaluations >= 1 => nread >= 2

====
